---- MODULE Spec2Model ----
(***************************************************************************)
(* A model of the HubSpot -> Snowflake sync job (src/sync_to_snowflake.py). *)
(*                                                                         *)
(* Three state machines share the module:                                  *)
(*   SpecRequest  make_hubspot_request: one request and its retry loop     *)
(*   SpecWindow   fetch_hubspot_data: the windowed search loop             *)
(*   Spec         sync_contacts: the phases of one object type's runs,     *)
(*                with the origin changing around them                     *)
(***************************************************************************)
EXTENDS Integers, Sequences, FiniteSets, Bags, TLC

\* F applied to the value of v, with v evaluated once.
Apply(F(_), v) == CHOOSE out \in {F(x) : x \in {v}} : TRUE

Min(a, b) == IF a <= b THEN a ELSE b
Max(a, b) == IF a >= b THEN a ELSE b

(***************************************************************************)
(* make_hubspot_request                                                    *)
(***************************************************************************)
VARIABLES
    method,       \* the method argument
    rq_pc,        \* "call": the loop is about to issue attempt `attempt`;
                  \* "returned" / "raised": the function has ended
    attempt,      \* the loop variable of `for attempt in range(MAX_RETRIES)`
    retry_delay,  \* the local retry_delay
    calls,        \* HTTP calls issued so far (requests.get / requests.post)
    sleeps,       \* the arguments of time.sleep so far, in order
    history,      \* the outcome of each HTTP call so far, in order
    rq_result     \* what the function returned or raised

reqVars == <<method, rq_pc, attempt, retry_delay, calls, sleeps, history, rq_result>>

MAX_RETRIES == 5
INITIAL_RETRY_DELAY == 2
MAX_RETRY_DELAY == 60

\* The methods a caller may pass; anything but GET and POST is unsupported.
Methods == {"GET", "POST", "PUT"}

\* HTTP statuses the origin may answer with.
Statuses == {200, 400, 404, 429, 500}

\* A 429's Retry-After header: the set of its values, {} when it is absent.
RetryAfterValues == {{}, {7}}

\* No outcome, no response, no exception.
NoOutcome == [kind |-> "none", status |-> 0, retry_after |-> {}, seq |-> 0]
NoError == [kind |-> "none", response |-> NoOutcome, cause |-> NoOutcome]

\* What one HTTP call can come to: a response, or a network-level exception
\* (requests.exceptions.Timeout / ConnectionError, both RequestException).
\* seq is the index of the attempt that got it: it tells outcomes apart.
Outcomes(seq) ==
    [kind : {"response"}, status : Statuses \ {429}, retry_after : {{}}, seq : {seq}]
    \cup [kind : {"response"}, status : {429}, retry_after : RetryAfterValues, seq : {seq}]
    \cup [kind : {"Timeout", "ConnectionError"}, status : {0}, retry_after : {{}}, seq : {seq}]

\* Mutant: the delay grows by the initial delay, not by doubling.
NextDelay_Linear(d) == Min(d + INITIAL_RETRY_DELAY, MAX_RETRY_DELAY)

\* retry_delay = min(retry_delay * 2, MAX_RETRY_DELAY)
NextDelay(d) == Min(d * 2, MAX_RETRY_DELAY)

\* Mutant: the Retry-After header is ignored.
RateLimitSleep_IgnoresHeader(o, d) == d

\* int(response.headers.get('Retry-After', retry_delay))
RateLimitSleep(o, d) ==
    IF o.retry_after # {} THEN CHOOSE v \in o.retry_after : TRUE ELSE d

\* Mutant: the loop is `while True`.
MoreAttempts_Unbounded(a) == TRUE

\* `for attempt in range(MAX_RETRIES)`: is there another iteration after a?
MoreAttempts(a) == a + 1 < MAX_RETRIES

\* Mutant: off by one, the final attempt is never recognised.
IsFinalAttempt_OffByOne(a) == a = MAX_RETRIES

\* `if attempt == MAX_RETRIES - 1` in the except clause
IsFinalAttempt(a) == a = MAX_RETRIES - 1

\* The exception an outcome raises inside the try block, NoError if it raises none:
\* a network error raises itself; 400 raises HTTPError with the body; any other
\* status >= 400 left after the 429 and 5xx branches is raised by
\* response.raise_for_status().  requests.exceptions.HTTPError is a
\* RequestException, so all of them are caught by the except clause.
RaisedBy(o) ==
    IF o.kind # "response" THEN [kind |-> o.kind, response |-> NoOutcome, cause |-> o]
    ELSE IF o.status = 400 THEN [kind |-> "HTTPError", response |-> o, cause |-> o]
    ELSE IF o.status >= 400 /\ o.status < 500 /\ o.status # 429
         THEN [kind |-> "HTTPError", response |-> o, cause |-> o]
    ELSE NoError

\* raise Exception(f"Failed to complete request after {MAX_RETRIES} attempts")
ExhaustedError == [kind |-> "Exception", response |-> NoOutcome, cause |-> NoOutcome]

\* raise ValueError(f"Unsupported HTTP method: {method}"): not a RequestException
UnsupportedMethod == [kind |-> "ValueError", response |-> NoOutcome, cause |-> NoOutcome]

RequestInit ==
    /\ method \in Methods
    /\ rq_pc = "call"
    /\ attempt = 0
    /\ retry_delay = INITIAL_RETRY_DELAY
    /\ calls = 0
    /\ sleeps = <<>>
    /\ history = <<>>
    /\ rq_result = NoError

\* The loop's `continue` (or the fall-through of the except clause): the next
\* iteration, or past the loop to the final raise.
Continue ==
    IF MoreAttempts(attempt)
    THEN /\ attempt' = attempt + 1
         /\ rq_pc' = "call"
         /\ rq_result' = NoError
    ELSE /\ attempt' = attempt
         /\ rq_pc' = "raised"
         /\ rq_result' = ExhaustedError

\* An unsupported method raises ValueError before any HTTP call is made.
RejectMethod ==
    /\ rq_pc = "call"
    /\ method \notin {"GET", "POST"}
    /\ rq_pc' = "raised"
    /\ rq_result' = UnsupportedMethod
    /\ UNCHANGED <<method, attempt, retry_delay, calls, sleeps, history>>

\* One iteration of the loop: the HTTP call and what the body does with outcome o.
Attempt(o) ==
    /\ rq_pc = "call"
    /\ method \in {"GET", "POST"}
    /\ calls' = calls + 1
    /\ history' = Append(history, o)
    /\ UNCHANGED method
    /\ IF o.kind = "response" /\ o.status = 429
       THEN /\ sleeps' = Append(sleeps, RateLimitSleep(o, retry_delay))
            /\ retry_delay' = NextDelay(retry_delay)
            /\ Continue
       ELSE IF o.kind = "response" /\ o.status >= 500
       THEN /\ sleeps' = Append(sleeps, retry_delay)
            /\ retry_delay' = NextDelay(retry_delay)
            /\ Continue
       ELSE IF RaisedBy(o) # NoError
       THEN IF IsFinalAttempt(attempt)
            THEN /\ rq_pc' = "raised"
                 /\ rq_result' = RaisedBy(o)
                 /\ UNCHANGED <<attempt, retry_delay, sleeps>>
            ELSE /\ sleeps' = Append(sleeps, retry_delay)
                 /\ retry_delay' = NextDelay(retry_delay)
                 /\ Continue
       ELSE /\ rq_pc' = "returned"
            /\ rq_result' = [kind |-> "json", response |-> o, cause |-> NoOutcome]
            /\ UNCHANGED <<attempt, retry_delay, sleeps>>

RequestStep == \E o \in Outcomes(attempt) : Attempt(o)

(***************************************************************************)
(* fetch_hubspot_data: the windowed search of the incremental load         *)
(***************************************************************************)
VARIABLES
    data,               \* the origin's records: a set of [id, mod] (mod in ms)
    start_ms,           \* the watermark, in ms
    end_ms,             \* now + 1
    max_window_ms,      \* HUBSPOT_SEARCH_WINDOW_MS
    min_window_ms,      \* HUBSPOT_SEARCH_WINDOW_MIN_MS
    win_pc,             \* "loop": inside `while cursor_ms < end_ms`; "done"
    cursor_ms,
    current_window_ms,
    all_records,        \* the list returned: ids in the order fetched
    total_pages,
    window_count

winVars == <<data, start_ms, end_ms, max_window_ms, min_window_ms, win_pc,
             cursor_ms, current_window_ms, all_records, total_pages, window_count>>

\* The Search API's cap on the results of one query: 10000 in the source, scaled
\* to the model's handful of records.
SearchCap == 4
\* 'limit': 200 in the source, scaled with the cap (the cap is a multiple of it).
PageLimit == 2

\* Records of the model's origin and the span of their modification times.
NumRecords == 5
MaxTime == 2

RECURSIVE SortedIds(_)
\* The ids of a set of records in ascending order: the order the origin lists them in.
SortedIds(recs) ==
    IF recs = {} THEN <<>>
    ELSE LET lo == CHOOSE r \in recs : \A q \in recs : r.id <= q.id
         IN <<lo.id>> \o SortedIds(recs \ {lo})

\* Mutant: the upper bound of a window is inclusive (LTE instead of LT).
InWindow_Closed(r, ws, we) == ws <= r.mod /\ r.mod <= we

\* The filter group of one search: mod GTE window_start_ms and mod LT window_end_ms.
InWindow(r, ws, we) == ws <= r.mod /\ r.mod < we

\* One page of the search endpoint: the matches from offset `after` on, at most
\* PageLimit of them; `next` is the offset of the following page, -1 if none.
SearchPage(matches, after) ==
    LET upto == Min(after + PageLimit, Len(matches))
    IN [total   |-> Len(matches),
        results |-> SubSeq(matches, after + 1, upto),
        next    |-> IF upto < Len(matches) THEN upto ELSE 0 - 1]

RECURSIVE SearchPages(_, _, _, _, _)
\* The `while True` loop of fetch_search_window from page offset `after` on.
SearchPages(matches, after, window_records, page_count, may_shrink) ==
    LET OnPage(page) ==
            LET records == window_records \o page.results
                pages   == page_count + 1
                capped  == page.total >= SearchCap
            IN  IF capped /\ may_shrink
                THEN [records |-> records, hit_limit |-> TRUE, pages |-> pages]
                ELSE IF Len(records) >= SearchCap
                THEN [records |-> records, hit_limit |-> TRUE, pages |-> pages]
                ELSE IF page.next >= 0
                THEN SearchPages(matches, page.next, records, pages, may_shrink)
                ELSE [records |-> records, hit_limit |-> capped, pages |-> pages]
    IN Apply(OnPage, SearchPage(matches, after))

\* fetch_search_window(window_start_ms, window_end_ms)
fetch_search_window(recs, ws, we, minw) ==
    LET Paged(matches) == SearchPages(matches, 0, <<>>, 0, (we - ws) > minw)
    IN Apply(Paged, SortedIds({r \in recs : InWindow(r, ws, we)}))

\* Mutant: the halved width is not held at the minimum.
HalvedWindow_NoFloor(width, minw) == width \div 2

\* current_window_ms = max(min_window_ms, (window_end - cursor_ms) // 2)
HalvedWindow(width, minw) == Max(minw, width \div 2)

\* Mutant: the doubled width is not held at the maximum.
GrownWindow_Uncapped(window, maxw, minw) == Max(window, minw) * 2

\* current_window_ms = min(max_window_ms, max(current_window_ms, min_window_ms) * 2)
GrownWindow(window, maxw, minw) == Min(maxw, Max(window, minw) * 2)

\* One iteration of `while cursor_ms < end_ms`, on the loop's locals w.
WindowIteration(recs, w, endms, maxw, minw) ==
    LET window_end == Min(w.cursor + w.window, endms)
        After(got) ==
            IF got.hit_limit /\ (window_end - w.cursor) > minw
            THEN [w EXCEPT !.window = HalvedWindow(window_end - w.cursor, minw),
                           !.pages  = w.pages + got.pages]
            ELSE [cursor  |-> window_end,
                  window  |-> IF ~got.hit_limit
                              THEN GrownWindow(w.window, maxw, minw)
                              ELSE w.window,
                  records |-> w.records \o got.records,
                  pages   |-> w.pages + got.pages,
                  windows |-> w.windows + 1]
    IN Apply(After, fetch_search_window(recs, w.cursor, window_end, minw))

\* The iterations that accept a window are counted up to this many: a width of
\* 0 ms never moves the cursor.
MaxWindows == 4

\* The datasets: every record has an id and a modification time up to now.
Datasets == {{[id |-> i, mod |-> f[i]] : i \in 1..NumRecords} :
                f \in [1..NumRecords -> 0..MaxTime]}

WindowInit ==
    /\ data \in Datasets
    /\ start_ms \in 0..1
    /\ end_ms = MaxTime + 1
    /\ max_window_ms \in 0..(MaxTime + 1)
    /\ min_window_ms \in 1..2
    /\ win_pc = "loop"
    /\ cursor_ms = start_ms
    /\ current_window_ms = max_window_ms
    /\ all_records = <<>>
    /\ total_pages = 0
    /\ window_count = 0

WindowStep ==
    /\ win_pc = "loop"
    /\ cursor_ms < end_ms
    /\ window_count < MaxWindows
    /\ LET w == WindowIteration(data,
                    [cursor |-> cursor_ms, window |-> current_window_ms,
                     records |-> all_records, pages |-> total_pages,
                     windows |-> window_count],
                    end_ms, max_window_ms, min_window_ms)
       IN /\ cursor_ms' = w.cursor
          /\ current_window_ms' = w.window
          /\ all_records' = w.records
          /\ total_pages' = w.pages
          /\ window_count' = w.windows
    /\ UNCHANGED <<data, start_ms, end_ms, max_window_ms, min_window_ms, win_pc>>

\* The loop condition fails: `return all_records`.
WindowReturn ==
    /\ win_pc = "loop"
    /\ cursor_ms >= end_ms
    /\ win_pc' = "done"
    /\ UNCHANGED <<data, start_ms, end_ms, max_window_ms, min_window_ms,
                   cursor_ms, current_window_ms, all_records, total_pages, window_count>>

(***************************************************************************)
(* sync_contacts: the runs of one object type                              *)
(***************************************************************************)
VARIABLES
    origin,                \* the CRM: for each id, whether it is live, and its record
    now,                   \* the clock, in the origin's ms
    dest,                  \* the CONTACTS table: a bag of rows
    meta,                  \* the SYNC_METADATA row of 'contacts'
    faults,                \* hard failures and failed batch reads still to come
    run_pc,                \* "idle", or the phase sync_contacts is about to enter
    run_result,            \* how the last run ended
    is_initial_full_sync,  \* the locals of sync_contacts, as the last phase left them
    contacts,
    records_synced,
    latest_modified_dt,
    current_hubspot_ids,
    run_reconciliation,
    missing_ids,
    missing_contacts

syncVars == <<origin, now, dest, meta, faults, run_pc, run_result,
              is_initial_full_sync, contacts, records_synced, latest_modified_dt,
              current_hubspot_ids, run_reconciliation, missing_ids,
              missing_contacts>>

\* RECONCILIATION_FREQUENCY (an environment setting, 10 by default), scaled to
\* the model's short histories.
RECONCILIATION_FREQUENCY == 2
\* SKIP_RECONCILIATION_IF_COUNTS_MATCH is read from the environment when the
\* module is loaded (line 27, default true) and never assigned afterwards.
VARIABLE SKIP_RECONCILIATION_IF_COUNTS_MATCH
\* HUBSPOT_SEARCH_WINDOW_MS and HUBSPOT_SEARCH_WINDOW_MIN_MS (6 h and 1 s by
\* default), scaled to the model's clock.
HUBSPOT_SEARCH_WINDOW_MS == 2
HUBSPOT_SEARCH_WINDOW_MIN_MS == 1

\* The ids the origin ever assigns, the last tick of the clock (each change at
\* the origin takes one tick), and the failures a behaviour may hold.
NumIds == 2
MaxClock == 2
MaxFaults == 1
\* The last tick of the clock in the behaviours without failures.
LongClock == 4

Ids == 1..NumIds

\* SQL NULL / Python None; a value v that is present is {v}.
NULL == {}

MaxOf(S) == CHOOSE x \in S : \A y \in S : y <= x

\* ---- the origin ----
NoRecord == [live |-> FALSE, val |-> 0, mod |-> 0]

\* The records the origin's endpoints serve: id, the domain properties (val
\* stands for all of them) and the last-modified time.
LiveRecords(o) ==
    {[id |-> i, val |-> o[i].val, mod |-> o[i].mod] : i \in {j \in DOMAIN o : o[j].live}}

RecordOf(recs, i) == CHOOSE r \in recs : r.id = i

RecordsOf(recs, ids) == [k \in 1..Len(ids) |-> RecordOf(recs, ids[k])]

RECURSIVE WindowLoop(_, _, _, _, _)
\* `while cursor_ms < end_ms` to its end: the list fetch_hubspot_data returns.
WindowLoop(recs, w, endms, maxw, minw) ==
    LET Rest(w2) == WindowLoop(recs, w2, endms, maxw, minw)
    IN  IF w.cursor < endms
        THEN Apply(Rest, WindowIteration(recs, w, endms, maxw, minw))
        ELSE w.records

\* fetch_hubspot_data(object_type, properties, modified_since) at time t: the
\* windowed search from the watermark when there is one, else the full list.
fetch_hubspot_data(recs, modified_since, t) ==
    IF modified_since # NULL
    THEN LET start == CHOOSE v \in modified_since : TRUE
         IN RecordsOf(recs,
                WindowLoop(recs,
                    [cursor |-> start, window |-> HUBSPOT_SEARCH_WINDOW_MS,
                     records |-> <<>>, pages |-> 0, windows |-> 0],
                    t + 1, HUBSPOT_SEARCH_WINDOW_MS, HUBSPOT_SEARCH_WINDOW_MIN_MS))
    ELSE RecordsOf(recs, SortedIds(recs))

\* get_all_hubspot_ids
get_all_hubspot_ids(o) == {i \in DOMAIN o : o[i].live}

\* fetch_records_by_ids: one batch/read call per chunk of 100 ids (the model's
\* ids fit in one chunk); a chunk whose call fails is skipped.
fetch_records_by_ids(o, record_ids, chunk_ok) ==
    IF record_ids = {} \/ ~chunk_ok THEN <<>>
    ELSE LET found == {r \in LiveRecords(o) : r.id \in record_ids}
         IN RecordsOf(found, SortedIds(found))

\* ---- the destination table ----
RECURSIVE SumCopies(_, _)
SumCopies(b, S) ==
    IF S = {} THEN 0
    ELSE LET r == CHOOSE x \in S : TRUE IN b[r] + SumCopies(b, S \ {r})

\* The bag of F(r) for the rows r of bag b.
MapBag(F(_), b) ==
    [x \in {F(r) : r \in DOMAIN b} |-> SumCopies(b, {r \in DOMAIN b : F(r) = x})]

\* The rows of bag b that satisfy P.
SelectBag(P(_), b) == [r \in {x \in DOMAIN b : P(x)} |-> b[r]]

RECURSIVE SeqToBag(_)
SeqToBag(sq) ==
    IF sq = <<>> THEN EmptyBag ELSE SetToBag({Head(sq)}) (+) SeqToBag(Tail(sq))

RowIds(table) == {r.id : r \in DOMAIN table}

\* SELECT HUBSPOT_ID FROM CONTACTS WHERE IS_DELETED = FALSE OR IS_DELETED IS NULL
ActiveIds(table) == {r.id : r \in {x \in DOMAIN table : ~x.del}}

\* SELECT COUNT(*) FROM CONTACTS WHERE IS_DELETED = FALSE OR IS_DELETED IS NULL
ActiveCount(table) == BagCardinality(SelectBag(LAMBDA r : ~r.del, table))

\* A fetched record as a row of a staging table: the INSERT names the domain
\* columns only, IS_DELETED takes its default and DELETED_AT is NULL.
StagedRow(rec) ==
    [id |-> rec.id, val |-> rec.val, mod |-> rec.mod, del |-> FALSE, delat |-> NULL]

Stage(recs) == SeqToBag([k \in 1..Len(recs) |-> StagedRow(recs[k])])

\* Mutant: the MERGE has no ON condition that matches, every staged row is inserted.
MergeUpsert_AlwaysInsert(table, stage) == table (+) stage

\* Mutant: WHEN MATCHED also resets IS_DELETED and DELETED_AT.
MergeUpsert_ClearsFlag(table, stage) ==
    LET source(r) == CHOOSE q \in DOMAIN stage : q.id = r.id
        updated(r) == IF r.id \in RowIds(stage)
                      THEN [r EXCEPT !.val = source(r).val, !.mod = source(r).mod,
                                     !.del = FALSE, !.delat = NULL]
                      ELSE r
    IN MapBag(updated, table)
       (+) SelectBag(LAMBDA q : q.id \notin RowIds(table), stage)

\* MERGE INTO CONTACTS USING CONTACTS_STAGE: WHEN MATCHED THEN UPDATE the domain
\* columns, WHEN NOT MATCHED THEN INSERT.
MergeUpsert(table, stage) ==
    LET source(r) == CHOOSE q \in DOMAIN stage : q.id = r.id
        updated(r) == IF r.id \in RowIds(stage)
                      THEN [r EXCEPT !.val = source(r).val, !.mod = source(r).mod]
                      ELSE r
    IN MapBag(updated, table)
       (+) SelectBag(LAMBDA q : q.id \notin RowIds(table), stage)

\* MERGE INTO CONTACTS USING CONTACTS_RECONCILE_STAGE: WHEN NOT MATCHED THEN
\* INSERT, and nothing WHEN MATCHED.
MergeInsertOnly(table, stage) ==
    table (+) SelectBag(LAMBDA q : q.id \notin RowIds(table), stage)

\* Mutant: the UPDATE sets IS_DELETED and leaves DELETED_AT as it was.
MarkDeleted_NoStamp(table, deleted_ids, t) ==
    LET flagged(r) == IF r.id \in deleted_ids THEN [r EXCEPT !.del = TRUE] ELSE r
    IN MapBag(flagged, table)

\* Mutant: the UPDATE has no WHERE clause and flags every row.
MarkDeleted_Everything(table, deleted_ids, t) ==
    LET flagged(r) == [r EXCEPT !.del = TRUE, !.delat = {t}]
    IN MapBag(flagged, table)

\* Mutant: the UPDATE stamps the rows flagged earlier again.
MarkDeleted_Restamps(table, deleted_ids, t) ==
    LET flagged(r) == IF r.id \in deleted_ids \/ r.del
                      THEN [r EXCEPT !.del = TRUE, !.delat = {t}]
                      ELSE r
    IN MapBag(flagged, table)

\* Mutant: the UPDATE is left out, no row is ever flagged.
MarkDeleted_Forgotten(table, deleted_ids, t) == table

\* UPDATE CONTACTS SET IS_DELETED = TRUE, DELETED_AT = CURRENT_TIMESTAMP()
\* FROM DELETED_CONTACTS_STAGE WHERE the ids are equal
MarkDeleted(table, deleted_ids, t) ==
    LET flagged(r) == IF r.id \in deleted_ids
                      THEN [r EXCEPT !.del = TRUE, !.delat = {t}]
                      ELSE r
    IN MapBag(flagged, table)

\* Mutant: one of the rows of the id is kept as it is.
DedupRow_AnyRow(table, i) == CHOOSE r \in DOMAIN table : r.id = i

\* MAX over a column of the rows of one id; MAX skips NULLs.
DedupRow(table, i) ==
    LET rows == {r \in DOMAIN table : r.id = i}
        stamps == UNION {r.delat : r \in rows}
    IN [id    |-> i,
        val   |-> MaxOf({r.val : r \in rows}),
        mod   |-> MaxOf({r.mod : r \in rows}),
        del   |-> \E r \in rows : r.del,
        delat |-> IF stamps = {} THEN NULL ELSE {MaxOf(stamps)}]

\* Mutant: CONTACTS_DEDUP is a plain copy of the table.
Deduplicate_Skipped(table) == table

\* Phase 4: when COUNT(*) > COUNT(DISTINCT HUBSPOT_ID), rebuild the table from
\* CONTACTS_DEDUP (GROUP BY HUBSPOT_ID), else leave it.
Deduplicate(table) ==
    IF BagCardinality(table) > Cardinality(RowIds(table))
    THEN SetToBag({DedupRow(table, i) : i \in RowIds(table)})
    ELSE table

\* ---- the metadata row ----
NoMetadata ==
    [exists |-> FALSE, ts |-> NULL, synced |-> NULL, hs_total |-> NULL,
     sf_total |-> NULL, match |-> NULL, run_count |-> 0, last_recon |-> NULL]

\* get_last_sync_timestamp: None when there is no row or its timestamp is NULL.
get_last_sync_timestamp(m) == IF m.exists THEN m.ts ELSE NULL

\* Mutant: the periodic check is never due.
should_run_reconciliation_NeverPeriodic(m) ==
    IF ~m.exists THEN TRUE
    ELSE IF m.hs_total = NULL \/ m.sf_total = NULL THEN TRUE
    ELSE m.hs_total # m.sf_total

\* Mutant: a stored mismatch does not trigger the reconciliation.
should_run_reconciliation_IgnoresMismatch(m) ==
    IF ~m.exists THEN TRUE
    ELSE IF m.hs_total = NULL \/ m.sf_total = NULL THEN TRUE
    ELSE IF m.run_count >= RECONCILIATION_FREQUENCY THEN TRUE
    ELSE ~SKIP_RECONCILIATION_IF_COUNTS_MATCH

should_run_reconciliation(m) ==
    IF ~m.exists THEN TRUE
    ELSE IF m.hs_total = NULL \/ m.sf_total = NULL THEN TRUE
    ELSE IF m.hs_total # m.sf_total THEN TRUE
    ELSE IF m.run_count >= RECONCILIATION_FREQUENCY THEN TRUE
    ELSE ~SKIP_RECONCILIATION_IF_COUNTS_MATCH

\* Mutant: the update of the run counter stamps the sync timestamp as well.
update_reconciliation_metadata_StampsWatermark(m, ran_reconciliation, t) ==
    IF ~m.exists THEN m
    ELSE IF ran_reconciliation
    THEN [m EXCEPT !.run_count = 0, !.last_recon = {t}, !.ts = {t}]
    ELSE [m EXCEPT !.run_count = @ + 1, !.ts = {t}]

\* Mutant: the counter is incremented whatever the decision was.
update_reconciliation_metadata_NoReset(m, ran_reconciliation, t) ==
    IF ~m.exists THEN m
    ELSE IF ran_reconciliation
    THEN [m EXCEPT !.run_count = @ + 1, !.last_recon = {t}]
    ELSE [m EXCEPT !.run_count = @ + 1]

\* update_reconciliation_metadata: an UPDATE, so nothing without a row.
update_reconciliation_metadata(m, ran_reconciliation, t) ==
    IF ~m.exists THEN m
    ELSE IF ran_reconciliation
    THEN [m EXCEPT !.run_count = 0, !.last_recon = {t}]
    ELSE [m EXCEPT !.run_count = @ + 1]

\* Mutant: the third MERGE writes the (unknown) totals of the run as well.
WriteMetadata_OverwritesCounts(m, perform_full_validation, latest_modified, synced, hubspot_total, snowflake_total, counts_match) ==
    LET row == IF m.exists THEN m ELSE [NoMetadata EXCEPT !.exists = TRUE]
    IN  [row EXCEPT !.ts = IF latest_modified # NULL THEN latest_modified ELSE row.ts,
                    !.synced = {synced},
                    !.hs_total = IF perform_full_validation THEN {hubspot_total} ELSE NULL,
                    !.sf_total = IF perform_full_validation THEN {snowflake_total} ELSE NULL,
                    !.match = IF perform_full_validation THEN {counts_match} ELSE NULL]

\* Mutant: the mismatch is raised before the metadata row is written.
WriteMetadata_RaisesFirst(m, perform_full_validation, latest_modified, synced, hubspot_total, snowflake_total, counts_match) ==
    LET row == IF m.exists THEN m ELSE [NoMetadata EXCEPT !.exists = TRUE]
    IN  IF perform_full_validation /\ ~counts_match
        THEN m
        ELSE IF perform_full_validation
        THEN [row EXCEPT !.ts = IF latest_modified # NULL THEN latest_modified
                                ELSE row.ts,
                         !.synced = {synced},
                         !.hs_total = {hubspot_total},
                         !.sf_total = {snowflake_total},
                         !.match = {counts_match}]
        ELSE [row EXCEPT !.ts = IF latest_modified # NULL THEN latest_modified
                                ELSE row.ts,
                         !.synced = {synced}]

\* The three MERGE INTO SYNC_METADATA statements at the end of a run.
WriteMetadata(m, perform_full_validation, latest_modified, synced, hubspot_total, snowflake_total, counts_match) ==
    LET row == IF m.exists THEN m ELSE [NoMetadata EXCEPT !.exists = TRUE]
    IN  IF perform_full_validation /\ latest_modified # NULL
        THEN [row EXCEPT !.ts = latest_modified, !.synced = {synced},
                         !.hs_total = {hubspot_total},
                         !.sf_total = {snowflake_total},
                         !.match = {counts_match}]
        ELSE IF perform_full_validation
        THEN [row EXCEPT !.synced = {synced},
                         !.hs_total = {hubspot_total},
                         !.sf_total = {snowflake_total},
                         !.match = {counts_match}]
        ELSE [row EXCEPT !.ts = IF latest_modified # NULL THEN latest_modified
                                ELSE row.ts,
                         !.synced = {synced}]

\* Mutant: a latest timestamp already held is not extended by later records.
LatestModified_KeepsFirst(latest, recs) ==
    IF latest # NULL THEN latest
    ELSE IF recs = <<>> THEN NULL ELSE {MaxOf({recs[k].mod : k \in 1..Len(recs)})}

\* `if dt and (latest_modified_dt is None or dt > latest_modified_dt)` over a list
LatestModified(latest, recs) ==
    LET seen == latest \cup {recs[k].mod : k \in 1..Len(recs)}
    IN IF seen = {} THEN NULL ELSE {MaxOf(seen)}

\* ---- the state machine ----
SyncInit(failures) ==
    /\ origin \in [Ids -> {NoRecord, [live |-> TRUE, val |-> 0, mod |-> 0]}]
    /\ now = 0
    /\ dest = EmptyBag
    /\ meta = NoMetadata
    /\ faults = failures
    /\ run_pc = "idle"
    /\ run_result = "none"
    /\ is_initial_full_sync = FALSE
    /\ contacts = <<>>
    /\ records_synced = 0
    /\ latest_modified_dt = NULL
    /\ current_hubspot_ids = {}
    /\ run_reconciliation = FALSE
    /\ missing_ids = {}
    /\ missing_contacts = <<>>

\* The run reads the origin in phase 1 (the fetch) and in phase 2 (the id
\* enumeration and the batch read): a change at the origin falls before one or
\* the other.  A change during a later phase is the same change after the run.
OriginObserved == run_pc \in {"idle", "phase2"}

\* The origin creates record i, restores it after a deletion (the id is the
\* same), or modifies it: its last-modified time is the time of the change.
OriginWrite(i, horizon) ==
    /\ OriginObserved
    /\ now < horizon
    /\ now' = now + 1
    /\ origin' = [origin EXCEPT ![i] = [live |-> TRUE, val |-> now + 1, mod |-> now + 1]]
    /\ UNCHANGED <<dest, meta, faults, run_pc, run_result, is_initial_full_sync,
                   contacts, records_synced, latest_modified_dt,
                   current_hubspot_ids, run_reconciliation, missing_ids,
                   missing_contacts>>

\* The origin deletes record i.
OriginDelete(i, horizon) ==
    /\ OriginObserved
    /\ now < horizon
    /\ origin[i].live
    /\ now' = now + 1
    /\ origin' = [origin EXCEPT ![i] = NoRecord]
    /\ UNCHANGED <<dest, meta, faults, run_pc, run_result, is_initial_full_sync,
                   contacts, records_synced, latest_modified_dt,
                   current_hubspot_ids, run_reconciliation, missing_ids,
                   missing_contacts>>

\* Phase 1 (lines 633-738): read the watermark, fetch, stage and merge.
Phase1Incremental ==
    /\ run_pc = "idle"
    /\ \E last_sync \in {get_last_sync_timestamp(meta)} :
       \E fetched \in {fetch_hubspot_data(LiveRecords(origin), last_sync, now)} :
       \E staged \in {Stage(fetched)} :
          /\ is_initial_full_sync' = (last_sync = NULL)
          /\ contacts' = fetched
          /\ records_synced' = Len(fetched)
          /\ dest' = IF fetched # <<>> THEN MergeUpsert(dest, staged) ELSE dest
          /\ latest_modified_dt' = LatestModified(NULL, fetched)
    /\ current_hubspot_ids' = {}
    /\ run_reconciliation' = FALSE
    /\ missing_ids' = {}
    /\ missing_contacts' = <<>>
    /\ run_pc' = "phase2"
    /\ run_result' = "running"
    /\ UNCHANGED <<origin, now, meta, faults>>

\* Phase 2 (lines 740-842): the reconciliation decision, the id diff, the
\* recovery of the missing records, and the update of the run counter.
Phase2Reconcile(chunk_ok) ==
    /\ run_pc = "phase2"
    /\ LET run     == ~is_initial_full_sync /\ should_run_reconciliation(meta)
           current == IF is_initial_full_sync
                      THEN {contacts[k].id : k \in 1..Len(contacts)}
                      ELSE IF run THEN get_all_hubspot_ids(origin) ELSE {}
           missing == IF run THEN current \ ActiveIds(dest) ELSE {}
       IN \E recovered \in {fetch_records_by_ids(origin, missing, chunk_ok)} :
          \E staged \in {Stage(recovered)} :
          /\ run_reconciliation' = run
          /\ missing_contacts' = recovered
          /\ current_hubspot_ids' = current
          /\ missing_ids' = missing
          /\ faults' = IF missing # {} /\ ~chunk_ok THEN faults - 1 ELSE faults
          /\ faults' >= 0
          /\ dest' = IF recovered # <<>>
                     THEN MergeInsertOnly(dest, staged)
                     ELSE dest
          /\ records_synced' = records_synced + Len(recovered)
          /\ latest_modified_dt' = LatestModified(latest_modified_dt, recovered)
          /\ meta' = IF is_initial_full_sync THEN meta
                     ELSE update_reconciliation_metadata(meta, run, now)
    /\ contacts' = <<>>  \* not read after this phase
    /\ run_pc' = "phase3"
    /\ UNCHANGED <<origin, now, run_result, is_initial_full_sync>>

\* Mutant: an initial full sync detects deletions like a reconciliation does.
Phase3SoftDelete_AlsoOnFirstSync ==
    /\ run_pc = "phase3"
    /\ dest' = IF is_initial_full_sync \/ run_reconciliation
               THEN MarkDeleted(dest, ActiveIds(dest) \ current_hubspot_ids, now)
               ELSE dest
    /\ run_pc' = "phase4"
    /\ UNCHANGED <<origin, now, meta, faults, run_result, is_initial_full_sync,
                   contacts, records_synced, latest_modified_dt,
                   current_hubspot_ids, run_reconciliation, missing_ids,
                   missing_contacts>>

\* Phase 3 (lines 844-883): flag the active rows whose id the origin no longer lists.
Phase3SoftDelete ==
    /\ run_pc = "phase3"
    /\ dest' = IF ~is_initial_full_sync /\ run_reconciliation
               THEN MarkDeleted(dest, ActiveIds(dest) \ current_hubspot_ids, now)
               ELSE dest
    /\ run_pc' = "phase4"
    /\ UNCHANGED <<origin, now, meta, faults, run_result, is_initial_full_sync,
                   contacts, records_synced, latest_modified_dt,
                   current_hubspot_ids, run_reconciliation, missing_ids,
                   missing_contacts>>

\* Phase 4 (lines 885-924): duplicate cleanup.
Phase4Dedup ==
    /\ run_pc = "phase4"
    /\ dest' = Deduplicate(dest)
    /\ run_pc' = "final"
    /\ UNCHANGED <<origin, now, meta, faults, run_result, is_initial_full_sync,
                   contacts, records_synced, latest_modified_dt,
                   current_hubspot_ids, run_reconciliation, missing_ids,
                   missing_contacts>>

\* Final validation (lines 926-1034): count, write the metadata row, commit,
\* and raise on a mismatch.
FinalValidation ==
    /\ run_pc = "final"
    /\ LET perform_full_validation == is_initial_full_sync \/ run_reconciliation
           hubspot_total   == Cardinality(current_hubspot_ids)
           snowflake_total == ActiveCount(dest)
           counts_match    == hubspot_total = snowflake_total
       IN /\ meta' = WriteMetadata(meta, perform_full_validation, latest_modified_dt,
                                   records_synced, hubspot_total, snowflake_total,
                                   counts_match)
          /\ run_result' = IF perform_full_validation /\ ~counts_match
                           THEN "mismatch" ELSE "ok"
    /\ run_pc' = "done"
    /\ UNCHANGED <<origin, now, dest, faults, is_initial_full_sync, contacts,
                   records_synced, latest_modified_dt, current_hubspot_ids,
                   run_reconciliation, missing_ids, missing_contacts>>

\* sync_contacts is left, by its return or by the ValueError of a mismatch: its
\* locals are gone.
ReturnFromRun ==
    /\ run_pc = "done"
    /\ run_pc' = "idle"
    /\ is_initial_full_sync' = FALSE
    /\ contacts' = <<>>
    /\ records_synced' = 0
    /\ latest_modified_dt' = NULL
    /\ current_hubspot_ids' = {}
    /\ run_reconciliation' = FALSE
    /\ missing_ids' = {}
    /\ missing_contacts' = <<>>
    /\ UNCHANGED <<origin, now, dest, meta, faults, run_result>>

\* A hard failure between two phases (an origin call out of retries, a lost
\* connection): the exception leaves sync_contacts and the process exits.
\* Every statement already executed stays committed.
AbortRun ==
    /\ run_pc \in {"phase2", "phase3", "phase4", "final"}
    /\ faults > 0
    /\ faults' = faults - 1
    /\ run_pc' = "idle"
    /\ run_result' = "aborted"
    /\ is_initial_full_sync' = FALSE
    /\ contacts' = <<>>
    /\ records_synced' = 0
    /\ latest_modified_dt' = NULL
    /\ current_hubspot_ids' = {}
    /\ run_reconciliation' = FALSE
    /\ missing_ids' = {}
    /\ missing_contacts' = <<>>
    /\ UNCHANGED <<origin, now, dest, meta>>

OriginStep(horizon) ==
    \E i \in Ids : OriginWrite(i, horizon) \/ OriginDelete(i, horizon)

RunStep ==
    \/ Phase1Incremental
    \/ \E chunk_ok \in BOOLEAN : Phase2Reconcile(chunk_ok)
    \/ Phase3SoftDelete
    \/ Phase4Dedup
    \/ FinalValidation
    \/ ReturnFromRun

(***************************************************************************)
(* The statements of one run on the CONTACTS table, from any table and any  *)
(* fetched batch                                                           *)
(***************************************************************************)
VARIABLES
    tbl,        \* the CONTACTS table: a bag of rows
    tbl_stage,  \* the fetched batch, as the list of records that is staged
    tbl_dedup,  \* the temporary table CONTACTS_DEDUP
    tbl_first,  \* the table before the first statement
    tbl_prev,   \* the table before the last statement (before the TRUNCATE, for phase 4)
    tbl_last,   \* the last statement executed
    tbl_pc      \* the statement that comes next, or how the statements ended

tblVars == <<tbl, tbl_stage, tbl_dedup, tbl_first, tbl_prev, tbl_last, tbl_pc>>

\* The rows a table holds at most, and the records a batch holds at most.
MaxRows == 2
MaxBatch == 2

\* The ids and property values of the rows and records, the deletion marks of
\* the rows (not deleted; deleted at time 0), and CURRENT_TIMESTAMP() of phase 3.
TableIds == {1, 2}
TableVals == {1, 2}
TableMarks == {[del |-> FALSE, delat |-> NULL], [del |-> TRUE, delat |-> {0}]}
FlagTime == 1

TableRows ==
    {[id |-> i, val |-> v, mod |-> v, del |-> m.del, delat |-> m.delat] :
        i \in TableIds, v \in TableVals, m \in TableMarks}

TableRecords == {[id |-> i, val |-> v, mod |-> v] : i \in TableIds, v \in TableVals}

\* Every table of at most MaxRows rows: ids may repeat, there is no enforced key.
Tables == {SeqToBag(s) : s \in UNION {[1..n -> TableRows] : n \in 0..MaxRows}}

\* Every batch of at most MaxBatch records: an id may occur more than once.
Batches == UNION {[1..n -> TableRecords] : n \in 0..MaxBatch}

\* The copies of id i in a bag of rows.
CopiesOf(b, i) == SumCopies(b, {r \in DOMAIN b : r.id = i})

\* A MERGE whose UPDATE joins one target row with several source rows is
\* rejected by the warehouse (its default), and changes nothing.
MergeFails(table, stage) == \E r \in DOMAIN table : CopiesOf(stage, r.id) > 1

TableInit ==
    /\ tbl \in Tables
    /\ tbl_stage \in Batches
    /\ tbl_dedup = EmptyBag
    /\ tbl_first = tbl
    /\ tbl_prev = tbl
    /\ tbl_last = "none"
    /\ tbl_pc = "merge"

\* Phase 1: stage the batch and MERGE it (lines 663-724); `again` is a replay
\* of the same batch.
TableUpsert(again) ==
    /\ tbl_pc = IF again THEN "merged" ELSE "merge"
    /\ tbl_stage # <<>>
    /\ \E staged \in {Stage(tbl_stage)} :
          IF MergeFails(tbl, staged)
          THEN tbl' = tbl /\ tbl_pc' = "failed"
          ELSE tbl' = MergeUpsert(tbl, staged)
               /\ tbl_pc' = IF again THEN "reconcile" ELSE "merged"
    /\ tbl_prev' = tbl
    /\ tbl_last' = IF again THEN "replay" ELSE "merge"
    /\ UNCHANGED <<tbl_stage, tbl_dedup, tbl_first>>

\* `if contacts:` is false, or the batch is not replayed.
TableUpsertSkip ==
    /\ \/ tbl_pc = "merge" /\ tbl_stage = <<>>
       \/ tbl_pc = "merged"
    /\ tbl_pc' = "reconcile"
    /\ UNCHANGED <<tbl, tbl_stage, tbl_dedup, tbl_first, tbl_prev, tbl_last>>

\* The batches a recovery stages: the batch read returns the records of the
\* missing ids (one record at most in this part).
RecoveredBatches == {b \in Batches : Len(b) <= 1}

\* Phase 2: the recovery MERGE (lines 813-825) of the recovered records.
TableRecover(recovered) ==
    /\ tbl_pc = "reconcile"
    /\ \E staged \in {Stage(recovered)} : tbl' = MergeInsertOnly(tbl, staged)
    /\ tbl_prev' = tbl
    /\ tbl_last' = "recover"
    /\ tbl_pc' = "flag"
    /\ UNCHANGED <<tbl_stage, tbl_dedup, tbl_first>>

\* Phase 3: the UPDATE (lines 872-878) for a set of deleted ids.
TableFlag(deleted_ids) ==
    /\ tbl_pc = "flag"
    /\ tbl' = MarkDeleted(tbl, deleted_ids, FlagTime)
    /\ tbl_prev' = tbl
    /\ tbl_last' = "flag"
    /\ tbl_pc' = "dedup"
    /\ UNCHANGED <<tbl_stage, tbl_dedup, tbl_first>>

\* Phase 4 with duplicates: CREATE TEMPORARY TABLE CONTACTS_DEDUP ... GROUP BY
\* HUBSPOT_ID, then TRUNCATE TABLE CONTACTS (lines 902-920).
TableTruncate ==
    /\ tbl_pc = "dedup"
    /\ BagCardinality(tbl) > Cardinality(RowIds(tbl))
    /\ tbl_dedup' = Deduplicate(tbl)
    /\ tbl' = EmptyBag
    /\ tbl_prev' = tbl
    /\ tbl_last' = "truncate"
    /\ tbl_pc' = "reinsert"
    /\ UNCHANGED <<tbl_stage, tbl_first>>

\* INSERT INTO CONTACTS SELECT * FROM CONTACTS_DEDUP (line 921).
TableReinsert ==
    /\ tbl_pc = "reinsert"
    /\ tbl' = tbl (+) tbl_dedup
    /\ tbl_last' = "reinsert"
    /\ tbl_pc' = "done"
    /\ UNCHANGED <<tbl_stage, tbl_dedup, tbl_first, tbl_prev>>

\* Phase 4 without duplicates: the table is left alone.
TableNoDuplicates ==
    /\ tbl_pc = "dedup"
    /\ BagCardinality(tbl) = Cardinality(RowIds(tbl))
    /\ tbl_dedup' = EmptyBag
    /\ tbl' = tbl
    /\ tbl_prev' = tbl
    /\ tbl_last' = "checked"
    /\ tbl_pc' = "done"
    /\ UNCHANGED <<tbl_stage, tbl_first>>

\* The run ends between two statements (an exception, a lost connection, the
\* end of the process): every statement executed is committed, the temporary
\* tables go with the session.
TableAbort ==
    /\ tbl_pc \in {"merged", "reconcile", "flag", "dedup", "reinsert"}
    /\ tbl_pc' = "aborted"
    /\ tbl_dedup' = EmptyBag
    /\ UNCHANGED <<tbl, tbl_stage, tbl_first, tbl_prev, tbl_last>>

(***************************************************************************)
(* The reconciliation decision on any metadata row                         *)
(*                                                                         *)
(* should_run_reconciliation and update_reconciliation_metadata applied,   *)
(* as phase 2 applies them, to any SYNC_METADATA row and either setting    *)
(* of SKIP_RECONCILIATION_IF_COUNTS_MATCH.                                 *)
(***************************************************************************)
VARIABLES dec_meta, dec_run, dec_pc

decVars == <<SKIP_RECONCILIATION_IF_COUNTS_MATCH, dec_meta, dec_run, dec_pc>>

\* The largest run counter and the largest total of a stored row.
MaxRunCount == 3
MaxTotal == 1

\* CURRENT_TIMESTAMP() of the counter update; the stored timestamps are earlier.
DecisionTime == 1

Totals == {NULL} \cup {{n} : n \in 0..MaxTotal}

\* The rows SYNC_METADATA can hold for an object type, and no row.
MetadataRows ==
    {NoMetadata} \cup
    [exists : {TRUE}, ts : {NULL, {0}}, synced : {NULL, {0}},
     hs_total : Totals, sf_total : Totals, match : {NULL},
     run_count : 0..MaxRunCount, last_recon : {NULL, {0}}]

DecisionInit ==
    /\ SKIP_RECONCILIATION_IF_COUNTS_MATCH \in BOOLEAN
    /\ dec_meta \in MetadataRows
    /\ dec_run = FALSE
    /\ dec_pc = "decide"

\* run_reconciliation = should_run_reconciliation(conn, 'contacts') (line 749).
Decide ==
    /\ dec_pc = "decide"
    /\ dec_run' = should_run_reconciliation(dec_meta)
    /\ dec_pc' = "update"
    /\ UNCHANGED <<SKIP_RECONCILIATION_IF_COUNTS_MATCH, dec_meta>>

\* update_reconciliation_metadata(conn, 'contacts', run_reconciliation) (line 842).
UpdateCounter ==
    /\ dec_pc = "update"
    /\ dec_meta' = update_reconciliation_metadata(dec_meta, dec_run, DecisionTime)
    /\ dec_pc' = "done"
    /\ UNCHANGED <<SKIP_RECONCILIATION_IF_COUNTS_MATCH, dec_run>>

(***************************************************************************)
(* main: the process from its start to its exit                            *)
(*                                                                         *)
(* main connects, initialises the schema, calls sync_contacts and then     *)
(* sync_companies inside one try block, and exits with code 1 on any       *)
(* exception.  A sync is the sequence of its steps; each step may raise,   *)
(* and the last one raises when the run validated and the totals differ.   *)
(***************************************************************************)
VARIABLES
    main_pc,          \* "start", "sync", "completed", "exited"
    main_object,      \* the index in ObjectTypes of the sync that is running
    main_step,        \* the index in SyncSteps of its next step
    main_log,         \* the steps performed so far, <<object type, step>>
    main_raised,      \* the <<object type, step>> that raised, if one did
    validations,      \* for each object type, what its run validates
    exit_code         \* NULL while the process runs

mainVars == <<main_pc, main_object, main_step, main_log, main_raised, validations, exit_code>>

\* The largest total a run counts.
MaxCount == 1

\* sync_contacts(conn), then sync_companies(conn) (lines 1477-1478).
ObjectTypes == <<"contacts", "companies">>

\* The steps of a sync, in the order of the code: phase 1 (fetch, merge), phase
\* 2, phase 3, phase 4, the metadata write with its commit, the report.
SyncSteps == <<"fetch", "merge", "reconcile", "soft_delete", "dedup", "watermark", "validation">>

\* perform_full_validation, hubspot_total and snowflake_total of a run.
Validations == [full : BOOLEAN, hubspot_total : 0..MaxCount, snowflake_total : 0..MaxCount]

\* Mutant: the report never raises.
RaisesMismatch_Never(v) == FALSE

\* `if perform_full_validation: ... if not counts_match: raise ValueError`.
RaisesMismatch(v) == v.full /\ v.hubspot_total # v.snowflake_total

\* Mutant: an exception of a sync is swallowed and main goes on.
AfterStep_SwallowsError(raised, object, step) ==
    IF step < Len(SyncSteps)
    THEN [pc |-> "sync", object |-> object, step |-> step + 1, code |-> NULL]
    ELSE IF object < Len(ObjectTypes)
    THEN [pc |-> "sync", object |-> object + 1, step |-> 1, code |-> NULL]
    ELSE [pc |-> "completed", object |-> object, step |-> step, code |-> NULL]

\* Where main is after a step: an exception leaves the try block for
\* sys.exit(1); otherwise the next step, the next sync, or the end of the block.
AfterStep(raised, object, step) ==
    IF raised
    THEN [pc |-> "exited", object |-> object, step |-> step, code |-> {1}]
    ELSE IF step < Len(SyncSteps)
    THEN [pc |-> "sync", object |-> object, step |-> step + 1, code |-> NULL]
    ELSE IF object < Len(ObjectTypes)
    THEN [pc |-> "sync", object |-> object + 1, step |-> 1, code |-> NULL]
    ELSE [pc |-> "completed", object |-> object, step |-> step, code |-> NULL]

MainInit ==
    /\ main_pc = "start"
    /\ main_object = 1
    /\ main_step = 1
    /\ main_log = <<>>
    /\ main_raised = NULL
    /\ validations \in [{"contacts", "companies"} -> Validations]
    /\ exit_code = NULL

\* get_snowflake_connection and initialize_snowflake_schema (lines 1470-1474).
MainConnect(ok) ==
    /\ main_pc = "start"
    /\ main_pc' = IF ok THEN "sync" ELSE "exited"
    /\ exit_code' = IF ok THEN NULL ELSE {1}
    /\ UNCHANGED <<main_object, main_step, main_log, main_raised, validations>>

\* One step of the sync that is running; ok is false when the step raises
\* (an origin call out of retries, a statement that fails).
MainSyncStep(ok) ==
    /\ main_pc = "sync"
    /\ LET object == ObjectTypes[main_object]
           step   == SyncSteps[main_step]
           raised == ~ok \/ (step = "validation" /\ RaisesMismatch(validations[object]))
           after  == AfterStep(raised, main_object, main_step)
       IN /\ main_log' = Append(main_log, <<object, step>>)
          /\ main_raised' = IF raised THEN {<<object, step>>} ELSE main_raised
          /\ main_pc' = after.pc
          /\ main_object' = after.object
          /\ main_step' = after.step
          /\ exit_code' = after.code
    /\ UNCHANGED validations

\* conn.close() (line 1485) and the end of main: the interpreter exits with 0,
\* or with 1 when close raises.
MainFinish(ok) ==
    /\ main_pc = "completed"
    /\ main_pc' = "exited"
    /\ exit_code' = IF ok THEN {0} ELSE {1}
    /\ UNCHANGED <<main_object, main_step, main_log, main_raised, validations>>

(***************************************************************************)
(* fetch_records_by_ids over several chunks, and the caller's merge        *)
(***************************************************************************)
VARIABLES
    record_ids,     \* the ids asked for, a list
    br_origin,      \* the ids the origin holds
    br_pc,          \* "loop", "merge", "returned"
    br_offset,      \* i of `for i in range(0, len(record_ids), batch_size)`
    br_records,     \* all_records
    br_requests,    \* the inputs of the batch/read calls made, in order
    br_failed,      \* the offsets of the chunks whose call raised
    br_dest         \* the table the caller merges the records into

batchVars == <<record_ids, br_origin, br_pc, br_offset, br_records, br_requests, br_failed, br_dest>>

\* batch_size (100 in the code), scaled to the model's lists.
batch_size == 2

\* The ids a recovery can ask for.
MaxMissing == 4

\* A set of numbers as the ascending list.
RECURSIVE AscendingList(_)
AscendingList(S) ==
    IF S = {} THEN <<>>
    ELSE LET m == CHOOSE x \in S : \A y \in S : x <= y
         IN <<m>> \o AscendingList(S \ {m})

\* The `results` of one batch/read call: the records of the ids the origin holds.
BatchResults(held, batch_ids) ==
    LET Held(i) == i \in held
        found   == SelectSeq(batch_ids, Held)
    IN [k \in 1..Len(found) |-> [id |-> found[k], val |-> 1, mod |-> 1]]

\* Mutant: the loop is left at the first chunk that fails.
NextOffset_StopsOnFailure(i, ok, n) == IF ok THEN i + batch_size ELSE n

\* The next i of the loop: `continue` in the except branch goes on with the
\* next chunk like the end of the try branch does.
NextOffset(i, ok, n) == i + batch_size

BatchReadInit ==
    /\ record_ids \in {AscendingList(S) : S \in SUBSET (1..MaxMissing)}
    /\ br_origin \in SUBSET (1..MaxMissing)
    /\ br_pc = "loop"
    /\ br_offset = 0
    /\ br_records = <<>>
    /\ br_requests = <<>>
    /\ br_failed = {}
    /\ br_dest = EmptyBag

\* One iteration of the loop (lines 595-611): ok is false when
\* make_hubspot_request raises.
BatchReadChunk(ok) ==
    /\ br_pc = "loop"
    /\ br_offset < Len(record_ids)
    /\ LET batch_ids == SubSeq(record_ids, br_offset + 1, Min(br_offset + batch_size, Len(record_ids)))
       IN /\ br_requests' = Append(br_requests, batch_ids)
          /\ br_records' = IF ok THEN br_records \o BatchResults(br_origin, batch_ids)
                                 ELSE br_records
          /\ br_failed' = IF ok THEN br_failed ELSE br_failed \cup {br_offset}
          /\ br_offset' = NextOffset(br_offset, ok, Len(record_ids))
    /\ UNCHANGED <<record_ids, br_origin, br_pc, br_dest>>

\* `if not record_ids: return []`, or the end of the loop: `return all_records`.
BatchReadReturn ==
    /\ br_pc = "loop"
    /\ br_offset >= Len(record_ids)
    /\ br_pc' = "merge"
    /\ UNCHANGED <<record_ids, br_origin, br_offset, br_records, br_requests, br_failed, br_dest>>

\* The caller (lines 774-828): `if missing_contacts:` stage and merge them.
BatchMerge ==
    /\ br_pc = "merge"
    /\ br_dest' = IF br_records # <<>>
                  THEN MergeInsertOnly(br_dest, Stage(br_records))
                  ELSE br_dest
    /\ br_pc' = "returned"
    /\ UNCHANGED <<record_ids, br_origin, br_offset, br_records, br_requests, br_failed>>

(***************************************************************************)
(* The reference scenario: a full load of three records, an incremental    *)
(* run after an update and a creation, and a reconciliation after a        *)
(* deletion, as four runs of the sync job on an origin of four ids         *)
(***************************************************************************)
VARIABLES
    sc_B,         \* the id that is updated and later deleted
    sc_D,         \* the id that is created after the load
    sc_changes,   \* the changes the origin has made so far
    sc_runs,      \* the runs that have ended
    sc_fetches    \* for each run started, the ids its phase 1 fetched

scVars == <<sc_B, sc_D, sc_changes, sc_runs, sc_fetches>>

\* The ids A, B, C, D.
ScenarioIds == {1, 2, 3, 4}

\* The origin holds all ids but D, each last modified at 0 or at 1; it is 1
\* o'clock, nothing is stored.
ScenarioInit ==
    /\ sc_D \in ScenarioIds
    /\ sc_B \in ScenarioIds \ {sc_D}
    /\ sc_changes = {}
    /\ sc_runs = 0
    /\ sc_fetches = <<>>
    /\ \E f \in [ScenarioIds -> {0, 1}] :
          origin = [i \in ScenarioIds |->
                      IF i = sc_D THEN NoRecord
                      ELSE [live |-> TRUE, val |-> f[i], mod |-> f[i]]]
    /\ now = 1
    /\ dest = EmptyBag
    /\ meta = NoMetadata
    /\ faults = 0
    /\ run_pc = "idle"
    /\ run_result = "none"
    /\ is_initial_full_sync = FALSE
    /\ contacts = <<>>
    /\ records_synced = 0
    /\ latest_modified_dt = NULL
    /\ current_hubspot_ids = {}
    /\ run_reconciliation = FALSE
    /\ missing_ids = {}
    /\ missing_contacts = <<>>

\* After the first run the origin updates B and creates D, in either order.
ScenarioUpdate ==
    /\ run_pc = "idle"
    /\ sc_runs = 1
    /\ "update" \notin sc_changes
    /\ OriginWrite(sc_B, now + 1)
    /\ sc_changes' = sc_changes \cup {"update"}
    /\ UNCHANGED <<sc_B, sc_D, sc_runs, sc_fetches>>

ScenarioCreate ==
    /\ run_pc = "idle"
    /\ sc_runs = 1
    /\ "create" \notin sc_changes
    /\ OriginWrite(sc_D, now + 1)
    /\ sc_changes' = sc_changes \cup {"create"}
    /\ UNCHANGED <<sc_B, sc_D, sc_runs, sc_fetches>>

\* After the second run, or the third, the origin deletes B.
ScenarioDelete ==
    /\ run_pc = "idle"
    /\ sc_runs \in {2, 3}
    /\ "delete" \notin sc_changes
    /\ OriginDelete(sc_B, now + 1)
    /\ sc_changes' = sc_changes \cup {"delete"}
    /\ UNCHANGED <<sc_B, sc_D, sc_runs, sc_fetches>>

\* The runs: the first on the origin as it starts, the second after the update
\* and the creation, the fourth after the deletion.
ScenarioRunStarts ==
    \/ sc_runs = 0
    \/ sc_runs = 1 /\ {"update", "create"} \subseteq sc_changes
    \/ sc_runs = 2
    \/ sc_runs = 3 /\ "delete" \in sc_changes

ScenarioRun ==
    /\ run_pc = "idle" => ScenarioRunStarts
    /\ RunStep
    /\ sc_runs' = IF run_pc = "done" THEN sc_runs + 1 ELSE sc_runs
    /\ sc_fetches' = IF run_pc = "idle"
                     THEN Append(sc_fetches, {contacts'[k].id : k \in 1..Len(contacts')})
                     ELSE sc_fetches
    /\ UNCHANGED <<sc_B, sc_D, sc_changes>>

(***************************************************************************)
(* The specifications                                                      *)
(***************************************************************************)
vars == <<reqVars, winVars, syncVars, tblVars, decVars, mainVars, batchVars, scVars>>

\* No sync is running and nothing is stored.
SyncIdle ==
    /\ origin = [i \in Ids |-> NoRecord]
    /\ now = 0
    /\ dest = EmptyBag
    /\ meta = NoMetadata
    /\ faults = 0
    /\ run_pc = "idle"
    /\ run_result = "none"
    /\ is_initial_full_sync = FALSE
    /\ contacts = <<>>
    /\ records_synced = 0
    /\ latest_modified_dt = NULL
    /\ current_hubspot_ids = {}
    /\ run_reconciliation = FALSE
    /\ missing_ids = {}
    /\ missing_contacts = <<>>

\* A request that is not running, for the specifications of the other parts.
RequestIdle ==
    /\ method = "GET"
    /\ rq_pc = "returned"
    /\ attempt = 0
    /\ retry_delay = INITIAL_RETRY_DELAY
    /\ calls = 0
    /\ sleeps = <<>>
    /\ history = <<>>
    /\ rq_result = NoError

\* A windowed fetch that is not running.
WindowIdle ==
    /\ data = {}
    /\ start_ms = 0
    /\ end_ms = 0
    /\ max_window_ms = 0
    /\ min_window_ms = 0
    /\ win_pc = "done"
    /\ cursor_ms = 0
    /\ current_window_ms = 0
    /\ all_records = <<>>
    /\ total_pages = 0
    /\ window_count = 0

\* No statement is running on a table of its own.
TableIdle ==
    /\ tbl = EmptyBag
    /\ tbl_stage = <<>>
    /\ tbl_dedup = EmptyBag
    /\ tbl_first = EmptyBag
    /\ tbl_prev = EmptyBag
    /\ tbl_last = "none"
    /\ tbl_pc = "done"

\* No decision is being taken; the flag is at its default.
DecisionIdle ==
    /\ SKIP_RECONCILIATION_IF_COUNTS_MATCH = TRUE
    /\ dec_meta = NoMetadata
    /\ dec_run = FALSE
    /\ dec_pc = "done"

\* The process is not running.
MainIdle ==
    /\ main_pc = "exited"
    /\ main_object = 1
    /\ main_step = 1
    /\ main_log = <<>>
    /\ main_raised = NULL
    /\ validations = [o \in {"contacts", "companies"} |-> [full |-> FALSE, hubspot_total |-> 0, snowflake_total |-> 0]]
    /\ exit_code = {0}

\* No batch read is running.
BatchIdle ==
    /\ record_ids = <<>>
    /\ br_origin = {}
    /\ br_pc = "returned"
    /\ br_offset = 0
    /\ br_records = <<>>
    /\ br_requests = <<>>
    /\ br_failed = {}
    /\ br_dest = EmptyBag

\* No scenario is played.
ScenarioIdle ==
    /\ sc_B = 0
    /\ sc_D = 0
    /\ sc_changes = {}
    /\ sc_runs = 0
    /\ sc_fetches = <<>>

RequestNext ==
    \/ RejectMethod /\ UNCHANGED <<winVars, syncVars, tblVars, decVars, mainVars, batchVars, scVars>>
    \/ RequestStep /\ UNCHANGED <<winVars, syncVars, tblVars, decVars, mainVars, batchVars, scVars>>

InitRequest == RequestInit /\ WindowIdle /\ SyncIdle /\ TableIdle /\ DecisionIdle /\ MainIdle /\ BatchIdle /\ ScenarioIdle

SpecRequest == InitRequest /\ [][RequestNext]_vars

WindowNext ==
    \/ WindowStep /\ UNCHANGED <<reqVars, syncVars, tblVars, decVars, mainVars, batchVars, scVars>>
    \/ WindowReturn /\ UNCHANGED <<reqVars, syncVars, tblVars, decVars, mainVars, batchVars, scVars>>

InitWindow == WindowInit /\ RequestIdle /\ SyncIdle /\ TableIdle /\ DecisionIdle /\ MainIdle /\ BatchIdle /\ ScenarioIdle

SpecWindow == InitWindow /\ [][WindowNext]_vars

\* The sync job run again and again (by its scheduler) while the origin
\* changes; a bounded number of runs fail hard or lose a batch read.
Next ==
    \/ OriginStep(MaxClock) /\ UNCHANGED <<reqVars, winVars, tblVars, decVars, mainVars, batchVars, scVars>>
    \/ RunStep /\ UNCHANGED <<reqVars, winVars, tblVars, decVars, mainVars, batchVars, scVars>>
    \/ AbortRun /\ UNCHANGED <<reqVars, winVars, tblVars, decVars, mainVars, batchVars, scVars>>

Init == SyncInit(MaxFaults) /\ RequestIdle /\ WindowIdle /\ TableIdle /\ DecisionIdle /\ MainIdle /\ BatchIdle /\ ScenarioIdle

Spec == Init /\ [][Next]_vars

\* The same job when no call ever fails, over a longer history of the origin.
\* The scheduler keeps starting runs, and a run that is started goes on to its
\* end: the steps of a run are weakly fair.
NextNoFailure ==
    \/ OriginStep(LongClock) /\ UNCHANGED <<reqVars, winVars, tblVars, decVars, mainVars, batchVars, scVars>>
    \/ RunStep /\ UNCHANGED <<reqVars, winVars, tblVars, decVars, mainVars, batchVars, scVars>>

InitNoFailure == SyncInit(0) /\ RequestIdle /\ WindowIdle /\ TableIdle /\ DecisionIdle /\ MainIdle /\ BatchIdle /\ ScenarioIdle

SpecNoFailure ==
    InitNoFailure /\ [][NextNoFailure]_vars /\ WF_vars(RunStep /\ UNCHANGED <<reqVars, winVars, tblVars, decVars, mainVars, batchVars, scVars>>)

\* The statements of a run on any table, with any batch; the run may end
\* between any two of them.
TableNext ==
    \/ (\E again \in BOOLEAN : TableUpsert(again)) /\ UNCHANGED <<reqVars, winVars, syncVars, decVars, mainVars, batchVars, scVars>>
    \/ TableUpsertSkip /\ UNCHANGED <<reqVars, winVars, syncVars, decVars, mainVars, batchVars, scVars>>
    \/ (\E recovered \in RecoveredBatches : TableRecover(recovered)) /\ UNCHANGED <<reqVars, winVars, syncVars, decVars, mainVars, batchVars, scVars>>
    \/ (\E deleted_ids \in SUBSET TableIds : TableFlag(deleted_ids)) /\ UNCHANGED <<reqVars, winVars, syncVars, decVars, mainVars, batchVars, scVars>>
    \/ TableTruncate /\ UNCHANGED <<reqVars, winVars, syncVars, decVars, mainVars, batchVars, scVars>>
    \/ TableReinsert /\ UNCHANGED <<reqVars, winVars, syncVars, decVars, mainVars, batchVars, scVars>>
    \/ TableNoDuplicates /\ UNCHANGED <<reqVars, winVars, syncVars, decVars, mainVars, batchVars, scVars>>
    \/ TableAbort /\ UNCHANGED <<reqVars, winVars, syncVars, decVars, mainVars, batchVars, scVars>>

InitTable == TableInit /\ RequestIdle /\ WindowIdle /\ SyncIdle /\ DecisionIdle /\ MainIdle /\ BatchIdle /\ ScenarioIdle

SpecTable == InitTable /\ [][TableNext]_vars

\* The decision and the counter update on any stored row.
DecisionNext ==
    \/ Decide /\ UNCHANGED <<reqVars, winVars, syncVars, tblVars, mainVars, batchVars, scVars>>
    \/ UpdateCounter /\ UNCHANGED <<reqVars, winVars, syncVars, tblVars, mainVars, batchVars, scVars>>

InitDecision == DecisionInit /\ RequestIdle /\ WindowIdle /\ SyncIdle /\ TableIdle /\ MainIdle /\ BatchIdle /\ ScenarioIdle

SpecDecision == InitDecision /\ [][DecisionNext]_vars

\* One process, from its start to its exit.
MainNext ==
    \/ (\E ok \in BOOLEAN : MainConnect(ok)) /\ UNCHANGED <<reqVars, winVars, syncVars, tblVars, decVars, batchVars, scVars>>
    \/ (\E ok \in BOOLEAN : MainSyncStep(ok)) /\ UNCHANGED <<reqVars, winVars, syncVars, tblVars, decVars, batchVars, scVars>>
    \/ (\E ok \in BOOLEAN : MainFinish(ok)) /\ UNCHANGED <<reqVars, winVars, syncVars, tblVars, decVars, batchVars, scVars>>

InitMain == MainInit /\ RequestIdle /\ WindowIdle /\ SyncIdle /\ TableIdle /\ DecisionIdle /\ BatchIdle /\ ScenarioIdle

SpecMain == InitMain /\ [][MainNext]_vars

\* One call of fetch_records_by_ids and the merge of what it returns.
BatchNext ==
    \/ (\E ok \in BOOLEAN : BatchReadChunk(ok)) /\ UNCHANGED <<reqVars, winVars, syncVars, tblVars, decVars, mainVars, scVars>>
    \/ BatchReadReturn /\ UNCHANGED <<reqVars, winVars, syncVars, tblVars, decVars, mainVars, scVars>>
    \/ BatchMerge /\ UNCHANGED <<reqVars, winVars, syncVars, tblVars, decVars, mainVars, scVars>>

InitBatch == BatchReadInit /\ RequestIdle /\ WindowIdle /\ SyncIdle /\ TableIdle /\ DecisionIdle /\ MainIdle /\ ScenarioIdle

SpecBatch == InitBatch /\ [][BatchNext]_vars

\* The reference scenario.
ScenarioNext ==
    \/ ScenarioUpdate /\ UNCHANGED <<reqVars, winVars, tblVars, decVars, mainVars, batchVars>>
    \/ ScenarioCreate /\ UNCHANGED <<reqVars, winVars, tblVars, decVars, mainVars, batchVars>>
    \/ ScenarioDelete /\ UNCHANGED <<reqVars, winVars, tblVars, decVars, mainVars, batchVars>>
    \/ ScenarioRun /\ UNCHANGED <<reqVars, winVars, tblVars, decVars, mainVars, batchVars>>

InitScenario == ScenarioInit /\ RequestIdle /\ WindowIdle /\ TableIdle /\ DecisionIdle /\ MainIdle /\ BatchIdle

SpecScenario == InitScenario /\ [][ScenarioNext]_vars

(***************************************************************************)
(* Claims about make_hubspot_request (checked under SpecRequest)           *)
(***************************************************************************)
IsResponse(o, statuses) == o.kind = "response" /\ o.status \in statuses

ClientErrors == {st \in Statuses : st >= 400 /\ st < 500 /\ st # 429}
OtherClientErrors == ClientErrors \ {400}

\* C6: an HTTP 400 response ends the request at once: the 400 is the last HTTP
\* call made, nothing is slept after it, and the error raised carries its body.
C6_BadRequestFailsImmediately ==
    \A i \in 1..Len(history) :
        IsResponse(history[i], {400}) =>
            /\ rq_pc = "raised"
            /\ calls = i
            /\ Len(sleeps) = i - 1
            /\ rq_result.response = history[i]

\* C7: any 4xx response other than 429 (404 here, not only 400) is fatal at
\* once: the request is not issued again and no backoff sleep follows it.
C7_ClientErrorFailsImmediately ==
    \A i \in 1..Len(history) :
        IsResponse(history[i], OtherClientErrors) =>
            /\ rq_pc = "raised"
            /\ Len(history) = i
            /\ Len(sleeps) < i

\* C8: at most MAX_RETRIES HTTP calls are made for one request; every call uses
\* up one attempt of the budget, so the loop ends; it ends returning the first
\* successful response or raising.
C8_BoundedRetry ==
    /\ calls <= MAX_RETRIES
    /\ calls = Len(history)
    /\ rq_pc = "call" => calls = attempt /\ attempt < MAX_RETRIES
    /\ rq_pc \in {"call", "returned", "raised"}
    /\ rq_pc = "raised" => rq_result.kind \notin {"none", "json"}
    /\ rq_pc = "returned" =>
          /\ rq_result.kind = "json"
          /\ rq_result.response = history[Len(history)]
          /\ \A i \in 1..Len(history) :
                IsResponse(history[i], {200}) <=> i = Len(history)

C8_Witness_BudgetUsedUp ==
    /\ rq_pc = "raised"
    /\ calls = MAX_RETRIES
    /\ \E i \in 1..Len(history) : history[i].kind = "Timeout"
    /\ \E i \in 1..Len(history) : IsResponse(history[i], {429})
    /\ \E i \in 1..Len(history) : IsResponse(history[i], {500})

AllAttemptsFailed == rq_pc = "raised" /\ calls = MAX_RETRIES

\* C9 as claimed: when all MAX_RETRIES attempts failed, the error raised is the
\* failure of the final attempt: its exception for a network error, its HTTP
\* status for a 429 or 5xx response.
C9_LastErrorPropagated ==
    AllAttemptsFailed =>
        LET last == history[MAX_RETRIES] IN
        /\ rq_result.cause = last
        /\ last.kind = "response" => rq_result.cause.status = last.status

\* C9 as amended: when all MAX_RETRIES attempts failed, the exception of the
\* final attempt is raised when that attempt ended in a network error or in a
\* 4xx response other than 429; when it got a 429 or 5xx response a generic
\* exception is raised that carries neither the status nor the response.
C9_FinalErrorByKind ==
    AllAttemptsFailed =>
        LET last == history[MAX_RETRIES] IN
        /\ last.kind \in {"Timeout", "ConnectionError"} =>
              rq_result.kind = last.kind /\ rq_result.cause = last
        /\ IsResponse(last, ClientErrors) =>
              rq_result.kind = "HTTPError" /\ rq_result.response = last
        /\ IsResponse(last, {st \in Statuses : st = 429 \/ st >= 500}) =>
              /\ rq_result.kind = "Exception"
              /\ rq_result.response = NoOutcome
              /\ rq_result.cause = NoOutcome

C9_Witness_FinalNetworkError ==
    /\ AllAttemptsFailed
    /\ history[MAX_RETRIES].kind = "ConnectionError"
    /\ IsResponse(history[1], {500})

\* C10: a 429 makes the client sleep for Retry-After, or for the current backoff
\* delay when the header is absent, and issue the request again while attempts
\* remain; a success on a later attempt is what the request returns.
C10_RateLimitStep ==
    (/\ rq_pc = "call"
     /\ calls' = calls + 1
     /\ IsResponse(history'[calls'], {429}))
    => /\ sleeps' = Append(sleeps,
                           IF history'[calls'].retry_after = {}
                           THEN retry_delay
                           ELSE CHOOSE v \in history'[calls'].retry_after : TRUE)
       /\ attempt < MAX_RETRIES - 1 => rq_pc' = "call" /\ attempt' = attempt + 1

C10_SuccessAfterRateLimit ==
    \A i \in 1..Len(history) :
        IsResponse(history[i], {200}) =>
            rq_pc = "returned" /\ rq_result.response = history[i]

C10_RateLimitRetried == [][C10_RateLimitStep]_vars /\ []C10_SuccessAfterRateLimit

C10_Witness_SuccessAfter429 ==
    /\ rq_pc = "returned"
    /\ Len(history) = 3
    /\ IsResponse(history[1], {429}) /\ history[1].retry_after = {7}
    /\ IsResponse(history[2], {429}) /\ history[2].retry_after = {}
    /\ sleeps = <<7, 4>>

(***************************************************************************)
(* Claims about the windowed fetch (checked under SpecWindow)              *)
(***************************************************************************)
\* What an uncapped query `modified >= watermark` would return.
Uncapped == {r.id : r \in {q \in data : q.mod >= start_ms}}

Returned == {all_records[i] : i \in 1..Len(all_records)}

ExactlyUncapped ==
    /\ Returned = Uncapped
    /\ Len(all_records) = Cardinality(Returned)

\* Some interval of the minimum width holds more records than one query returns.
DenseInterval ==
    \E t \in start_ms..(end_ms - 1) :
        Cardinality({r \in data : InWindow(r, t, t + min_window_ms)}) > SearchCap

\* C3 as claimed: when the matches since the watermark exceed the cap, the
\* windowed fetch returns exactly the records of the uncapped query, each once,
\* whatever the initial window size.
C3_WindowedEqualsUncapped ==
    (win_pc = "done" /\ Cardinality(Uncapped) > SearchCap) => ExactlyUncapped

\* C3 as amended: the same, for datasets in which no interval of the minimum
\* window width holds more records than the cap.
C3_WindowedEqualsUncappedSparse ==
    (win_pc = "done" /\ Cardinality(Uncapped) > SearchCap /\ ~DenseInterval)
        => ExactlyUncapped

\* A fetch over more matches than the cap that began with one window over the
\* whole range, bisected it, and is done.
C3_Witness_BisectedFetch ==
    /\ win_pc = "done"
    /\ Cardinality(Uncapped) > SearchCap
    /\ ~DenseInterval
    /\ max_window_ms >= end_ms - start_ms
    /\ window_count >= 2
    /\ total_pages > window_count

\* The end of the window the next iteration queries, its width, and the
\* total the origin reports for it.
WindowEnd == Min(cursor_ms + current_window_ms, end_ms)

WindowWidth == WindowEnd - cursor_ms

WindowIds == {r.id : r \in {q \in data : cursor_ms <= q.mod /\ q.mod < WindowEnd}}

WindowTotal == Cardinality(WindowIds)

\* An iteration of the loop is about to run.
Iterating == win_pc = "loop" /\ cursor_ms < end_ms /\ window_count < MaxWindows

\* The ids the step appends to all_records.
Appended == {all_records'[i] : i \in (Len(all_records) + 1)..Len(all_records')}

\* The step accepts the window: its records are appended, the cursor moves to its end.
AcceptsWindow ==
    /\ Len(all_records') >= Len(all_records)
    /\ SubSeq(all_records', 1, Len(all_records)) = all_records
    /\ Appended \subseteq WindowIds
    /\ Len(all_records') - Len(all_records) >= Min(WindowTotal, SearchCap)
    /\ cursor_ms' = WindowEnd
    /\ window_count' = window_count + 1

\* C31: bisection step: when the total of a window reaches the cap and the
\* window is wider than the minimum, none of its records is added, the cursor
\* stays, and the same start is retried with width max(min_window, width div 2);
\* a capped window at or below the minimum width is accepted and the cursor
\* advances to the window end.
C31_BisectionStep ==
    [][(Iterating /\ WindowTotal >= SearchCap) =>
          IF WindowWidth > min_window_ms
          THEN /\ all_records' = all_records
               /\ cursor_ms' = cursor_ms
               /\ window_count' = window_count
               /\ current_window_ms' = Max(min_window_ms, WindowWidth \div 2)
          ELSE AcceptsWindow /\ current_window_ms' = current_window_ms]_vars

\* A window wider than the minimum was bisected to a width of the minimum held
\* above half, and the capped window of that width was then accepted.
C31_Witness_BisectedThenAccepted ==
    /\ win_pc = "loop"
    /\ max_window_ms = 3
    /\ min_window_ms = 2
    /\ start_ms = 0
    /\ current_window_ms = 2
    /\ cursor_ms = 2
    /\ window_count = 1
    /\ Len(all_records) >= SearchCap

\* C32: window growth and bounds: after each accepted window that did not hit
\* the cap the next width is min(max_window, 2 * max(current width, min_window)),
\* and, given min_window <= max_window, the current width is between the two
\* at every point of the fetch.
C32_WindowGrowthAndBounds ==
    /\ [](min_window_ms <= max_window_ms =>
            (min_window_ms <= current_window_ms /\ current_window_ms <= max_window_ms))
    /\ [][(Iterating /\ WindowTotal < SearchCap) =>
            /\ AcceptsWindow
            /\ current_window_ms' =
                  Min(max_window_ms, 2 * Max(current_window_ms, min_window_ms))]_vars

\* A window was bisected to the minimum width and an accepted window below the
\* cap then doubled the width, still under the maximum.
C32_Witness_GrownAfterBisection ==
    /\ max_window_ms = 3
    /\ min_window_ms = 1
    /\ current_window_ms = 2
    /\ window_count = 1
    /\ Len(all_records) < SearchCap

\* The modification times of the records returned so far.
ReturnedTimes == {r.mod : r \in {q \in data : q.id \in Returned}}

\* C33: accepted windows partition the fetch range: the first window starts at
\* the watermark, every accepted window [cursor, window end) is half-open and
\* the next starts where it ended, and when the loop ends the accepted windows
\* cover the range from the watermark to the fetch-start time with no gap and no
\* overlap.
C33_WindowsPartitionRange ==
    /\ [](/\ start_ms <= cursor_ms /\ cursor_ms <= end_ms
          /\ window_count = 0 => cursor_ms = start_ms
          /\ win_pc = "done" => cursor_ms = end_ms
          /\ \A t \in ReturnedTimes : start_ms <= t /\ t < cursor_ms)
    /\ [][\/ cursor_ms' = cursor_ms /\ all_records' = all_records
          \/ /\ window_count' = window_count + 1
             /\ cursor_ms' = WindowEnd
             /\ \A i \in Appended : \E r \in data :
                    r.id = i /\ cursor_ms <= r.mod /\ r.mod < cursor_ms']_vars

\* Three accepted windows, each one where the previous ended, reached the end of
\* the range from the watermark, and records were returned from it.
C33_Witness_ThreeWindows ==
    /\ win_pc = "done"
    /\ start_ms = 0
    /\ window_count = 3
    /\ cursor_ms = end_ms
    /\ Cardinality(ReturnedTimes) = 3

\* C34: the windowed fetch loop terminates: for any min_window >= 1 ms, every
\* iteration either strictly shrinks the window width or advances the cursor by
\* at least 1 ms.
C34_EveryIterationProgresses ==
    [][(Iterating /\ min_window_ms >= 1) =>
          \/ current_window_ms' < current_window_ms /\ cursor_ms' = cursor_ms
          \/ cursor_ms' >= cursor_ms + 1]_vars

\* The same for configurations whose maximum width is at least 1 ms too.
C34_ProgressesWithPositiveMaximum ==
    [][(Iterating /\ min_window_ms >= 1 /\ max_window_ms >= 1) =>
          \/ current_window_ms' < current_window_ms /\ cursor_ms' = cursor_ms
          \/ cursor_ms' >= cursor_ms + 1]_vars

\* With a maximum width of at least 1 ms the count of accepted windows stays
\* below the bound of the model.
AcceptedWindowsBounded ==
    max_window_ms >= 1 => window_count < MaxWindows

(***************************************************************************)
(* Claims about the sync runs (checked under Spec and SpecNoFailure)       *)
(***************************************************************************)
\* The non-deleted rows of id i.
ActiveRows(i) == SelectBag(LAMBDA r : r.id = i /\ ~r.del, dest)

\* The destination agrees with the origin on record i: one non-deleted row with
\* the record's current properties if it is live, no non-deleted row if not.
RecordConsistent(i) ==
    IF origin[i].live
    THEN /\ BagCardinality(ActiveRows(i)) = 1
         /\ \A r \in DOMAIN ActiveRows(i) :
                r.val = origin[i].val /\ r.mod = origin[i].mod
    ELSE BagCardinality(ActiveRows(i)) = 0

Consistent == \A i \in Ids : RecordConsistent(i)

\* C1: eventual per-record consistency.  Every behaviour of the model changes
\* the origin finitely often and goes on running syncs for ever, so the claim
\* makes the destination agree with the origin again and again.
C1_EventuallyConsistent == []<>Consistent

TsLeq(a, b) == a = NULL \/ (b # NULL /\ MaxOf(a) <= MaxOf(b))

\* C2: watermark monotonicity: no step of a run stores a LAST_SYNC_TIMESTAMP
\* below the one stored before it.
C2_WatermarkMonotone == [][TsLeq(meta.ts, meta'.ts)]_vars

RecoveredIds == {missing_contacts[k].id : k \in 1..Len(missing_contacts)}

\* C4: self-healing within one cycle: at the end of a run that reconciled and
\* whose batch read returned every missing id, each id that was live at the
\* origin and had no non-deleted row has one.
C4_MissingRecoveredSameRun ==
    (run_pc = "done" /\ run_reconciliation /\ RecoveredIds = missing_ids)
        => missing_ids \subseteq ActiveIds(dest)

\* C5: completeness after reconciliation: when a run that validated in full (a
\* full reconciliation, or the initial full load) stored counts_match = true,
\* the non-deleted destination ids are exactly the enumerated origin ids, and
\* there are as many non-deleted rows.
C5_CompleteWhenCountsMatch ==
    (/\ run_pc = "done"
     /\ is_initial_full_sync \/ run_reconciliation
     /\ meta.match = {TRUE})
    => /\ ActiveIds(dest) = current_hubspot_ids
       /\ BagCardinality(SelectBag(LAMBDA r : ~r.del, dest))
            = Cardinality(current_hubspot_ids)
       /\ meta.hs_total = meta.sf_total

\* A reconciliation that recovered a missing record and flagged a deleted one,
\* and ended with matching counts.
C5_Witness_ReconciledAndMatched ==
    /\ run_pc = "done"
    /\ run_reconciliation
    /\ meta.match = {TRUE}
    /\ missing_ids # {}
    /\ \E r \in DOMAIN dest : r.del
    /\ current_hubspot_ids # {}

\* Every row of id i in the table is flagged and carries a deletion stamp.
FlaggedIn(table, i) ==
    \A r \in DOMAIN table : r.id = i => (r.del /\ r.delat # NULL)

\* At the end of a reconciliation run every row whose id the enumeration did not
\* list is flagged, with a stamp.
C11_AbsentIdsFlagged ==
    (run_pc = "done" /\ run_reconciliation)
        => \A i \in RowIds(dest) \ current_hubspot_ids : FlaggedIn(dest, i)

\* A flagged id stays flagged, hence outside ActiveIds and ActiveCount.
C11_FlaggedStaysFlagged ==
    \A i \in RowIds(dest) :
        FlaggedIn(dest, i) => (FlaggedIn(dest', i) /\ i \notin ActiveIds(dest'))

\* C11: soft-delete correctness: an id that a reconciliation no longer finds in
\* the origin's enumeration (a fortiori one that an earlier reconciliation did
\* find there) has, at the end of that reconciliation run, all its rows marked
\* is_deleted with a non-null deleted_at, and no later step brings it back into
\* the active-id and active-count queries.
C11_SoftDeleteCorrect == []C11_AbsentIdsFlagged /\ [][C11_FlaggedStaysFlagged]_vars

\* A reconciliation run has just flagged a row whose id the enumeration lacks.
C11_Witness_FlaggedThisRun ==
    /\ run_pc = "done"
    /\ run_reconciliation
    /\ \E r \in DOMAIN dest :
          r.del /\ r.delat = {now} /\ r.id \notin current_hubspot_ids

\* The (IS_DELETED, DELETED_AT) pairs of the rows of id i.
DeleteMarks(table, i) == {<<r.del, r.delat>> : r \in {x \in DOMAIN table : x.id = i}}

\* C12: the deletion columns of an existing row change only in the soft-delete
\* phase of a run that is not an initial full sync, that decided to reconcile
\* and holds the origin's id enumeration, and only for an id that enumeration
\* does not list; no other step (of a run that skips reconciliation, of an
\* initial full sync, of a run that fails before the enumeration) changes them.
C12_FlaggedOnlyByReconciliation ==
    [][\A i \in RowIds(dest) :
          DeleteMarks(dest', i) # DeleteMarks(dest, i)
              => /\ run_pc = "phase3"
                 /\ run_reconciliation
                 /\ ~is_initial_full_sync
                 /\ current_hubspot_ids = get_all_hubspot_ids(origin)
                 /\ i \notin current_hubspot_ids]_vars

\* A row is flagged while another row, whose id the enumeration lists, is not.
C12_Witness_OnlyAbsentFlagged ==
    /\ run_pc = "phase4"
    /\ run_reconciliation
    /\ \E r \in DOMAIN dest : r.del /\ r.delat = {now} /\ r.id \notin current_hubspot_ids
    /\ \E r \in DOMAIN dest : ~r.del /\ r.id \in current_hubspot_ids

\* The run has taken its reconciliation decision (phase 2 is over).
Decided == run_pc \in {"phase3", "phase4", "final"}

\* The metadata row stores two known totals that differ.
StoredMismatch(m) ==
    m.exists /\ m.hs_total # NULL /\ m.sf_total # NULL /\ m.hs_total # m.sf_total

\* C17: mismatch forces recheck: a run that is not an initial full sync and
\* finds differing totals stored performs the full reconciliation; the stored
\* totals change only when a run stores new ones at its end.
C17_MismatchForcesRecheck ==
    (Decided /\ ~is_initial_full_sync /\ StoredMismatch(meta)) => run_reconciliation

\* A run found a mismatch stored by an earlier run and reconciles.
C17_Witness_RecheckAfterMismatch ==
    /\ run_pc = "phase3"
    /\ ~is_initial_full_sync
    /\ StoredMismatch(meta)
    /\ meta.match = {FALSE}
    /\ run_reconciliation

\* C18: periodic reconciliation every N syncs: the run counter counts the
\* non-initial syncs that skipped the reconciliation since the last one that
\* ran it; among any RECONCILIATION_FREQUENCY consecutive non-initial syncs one
\* reconciles, so a sync that skips it is never the
\* RECONCILIATION_FREQUENCY-th skipped in a row.
C18_ReconciledEveryN ==
    (Decided /\ ~is_initial_full_sync /\ ~run_reconciliation)
        => meta.run_count < RECONCILIATION_FREQUENCY

\* The step of phase 2 in a run that is not an initial full sync.
CounterStep == run_pc = "phase2" /\ run_pc' = "phase3" /\ ~is_initial_full_sync

\* What the step does to the counter and the last-reconciliation timestamp.
C20_CounterStepRight ==
    CounterStep
        => /\ run_reconciliation'
                => meta'.run_count = 0 /\ meta'.last_recon = {now}
           /\ ~run_reconciliation'
                => meta'.run_count = meta.run_count + 1 /\ meta'.last_recon = meta.last_recon

\* C20: counter protocol: a true decision sets the run counter to 0 and the
\* last-reconciliation timestamp to the current time, a false decision
\* increments the counter by exactly one, and the counter, which starts at 0,
\* never exceeds RECONCILIATION_FREQUENCY.
C20_CounterProtocol ==
    [][C20_CounterStepRight]_vars /\ [](meta.run_count \in 0..RECONCILIATION_FREQUENCY)

\* A periodic reconciliation (the stored totals are equal) has reset the counter.
C20_Witness_CounterReset ==
    /\ run_pc = "phase3"
    /\ ~is_initial_full_sync
    /\ run_reconciliation
    /\ meta.run_count = 0
    /\ meta.last_recon = {now}
    /\ meta.hs_total = meta.sf_total
    /\ meta.hs_total # NULL

\* The metadata write at the end of a run that is not an initial full sync and
\* skipped the reconciliation.
SkippedRunWrite ==
    run_pc = "final" /\ run_pc' = "done" /\ ~is_initial_full_sync /\ ~run_reconciliation

\* C21: count fields are preserved when no reconciliation ran: the metadata
\* write at the end of a non-initial run that skipped reconciliation leaves the
\* stored origin total, destination total and match flag (and the counter and
\* the last-reconciliation time) as they were; it writes the synced-record
\* count, and the sync timestamp when the run fetched a record.
C21_CountsPreservedOnSkip ==
    [][SkippedRunWrite
          => /\ meta'.hs_total = meta.hs_total
             /\ meta'.sf_total = meta.sf_total
             /\ meta'.match = meta.match
             /\ meta'.run_count = meta.run_count
             /\ meta'.last_recon = meta.last_recon
             /\ meta'.synced = {records_synced}
             /\ meta'.ts = IF latest_modified_dt # NULL THEN latest_modified_dt
                                                       ELSE meta.ts]_vars

\* A run that skipped the reconciliation and fetched a record has written the
\* metadata row; the row still holds known totals.
C21_Witness_SkippedRunWrote ==
    /\ run_pc = "done"
    /\ ~is_initial_full_sync
    /\ ~run_reconciliation
    /\ records_synced > 0
    /\ meta.ts = latest_modified_dt
    /\ meta.hs_total # NULL
    /\ meta.match = {TRUE}

\* The ids of a list of records.
IdsOf(recs) == {recs[k].id : k \in 1..Len(recs)}

\* Phase 1 of a run that finds no watermark timestamp: a full load.
C24_FirstSyncLoadsAll ==
    (run_pc = "idle" /\ run_pc' = "phase2" /\ get_last_sync_timestamp(meta) = NULL)
        => /\ is_initial_full_sync'
           /\ IdsOf(contacts') = get_all_hubspot_ids(origin)

\* Phases 2 and 3 of an initial full sync: the ids are those of the load, no
\* record is missing or recovered, no row is written or flagged, and the
\* metadata row is not touched.
C24_FirstSyncNoReconciliation ==
    (is_initial_full_sync /\ run_pc \in {"phase2", "phase3"} /\ run_pc' # run_pc /\ run_pc' # "idle")
        => /\ run_pc = "phase2" => current_hubspot_ids' = IdsOf(contacts)
           /\ ~run_reconciliation'
           /\ missing_ids' = {}
           /\ missing_contacts' = <<>>
           /\ dest' = dest
           /\ meta' = meta

\* The metadata write of an initial full sync: the origin total is the number
\* of ids of the load, the counter is as it was.
C24_FirstSyncSeedsTotal ==
    (is_initial_full_sync /\ run_pc = "final" /\ run_pc' = "done")
        => /\ meta'.hs_total = {Cardinality(current_hubspot_ids)}
           /\ meta'.run_count = meta.run_count
           /\ meta'.last_recon = meta.last_recon

\* C24: first-sync seeding: a run that finds no watermark timestamp performs a
\* full load, takes the ids of the load as the origin's ids without a separate
\* enumeration, recovers no missing record and flags no row, leaves the
\* reconciliation counter unchanged, and records the number of distinct ids of
\* the load as the origin total.
C24_FirstSyncSeeding ==
    /\ [][C24_FirstSyncLoadsAll]_vars
    /\ [][C24_FirstSyncNoReconciliation]_vars
    /\ [][C24_FirstSyncSeedsTotal]_vars

\* An initial full sync has ended; the origin changed after the load, and the
\* total recorded is that of the load, not of the origin now.
C24_Witness_SeededFromLoad ==
    /\ run_pc = "done"
    /\ is_initial_full_sync
    /\ dest # EmptyBag
    /\ meta.hs_total = {Cardinality(current_hubspot_ids)}
    /\ current_hubspot_ids # get_all_hubspot_ids(origin)
    /\ ~run_reconciliation
    /\ meta.run_count = 0

\* The rows of id i in the table carry the origin's values of record i.
MirrorsOrigin(i) ==
    \A r \in DOMAIN dest : r.id = i => (r.val = origin[i].val /\ r.mod = origin[i].mod)

\* The first run: a full load of A, B, C inserts three rows, without
\* reconciliation.
C25_SeedRun ==
    (sc_runs = 0 /\ run_pc = "done")
        => /\ is_initial_full_sync
           /\ ~run_reconciliation
           /\ missing_ids = {}
           /\ sc_fetches = <<ScenarioIds \ {sc_D}>>
           /\ RowIds(dest) = ScenarioIds \ {sc_D}
           /\ BagCardinality(dest) = 3
           /\ run_result = "ok"

\* The second run: the table holds A, B, C, D, one row each, B as updated.
C25_IncrementalRun ==
    (sc_runs = 1 /\ run_pc = "done")
        => /\ ~is_initial_full_sync
           /\ {sc_B, sc_D} \subseteq sc_fetches[2]
           /\ RowIds(dest) = ScenarioIds
           /\ ActiveIds(dest) = ScenarioIds
           /\ BagCardinality(dest) = 4
           /\ MirrorsOrigin(sc_B)
           /\ MirrorsOrigin(sc_D)

\* The fourth run: the reconciliation finds A, C, D at the origin and flags B.
C25_ReconciliationRun ==
    (sc_runs = 3 /\ run_pc = "done")
        => /\ run_reconciliation
           /\ current_hubspot_ids = ScenarioIds \ {sc_B}
           /\ FlaggedIn(dest, sc_B)
           /\ RowIds(dest) = ScenarioIds
           /\ ActiveIds(dest) = ScenarioIds \ {sc_B}
           /\ meta.hs_total = {3}
           /\ meta.sf_total = {3}
           /\ meta.match = {TRUE}
           /\ run_result = "ok"

\* C25: reference scenario: from no watermark and an empty table, the full
\* load of {A,B,C} inserts 3 rows and is the seed, without reconciliation; the
\* next run, which fetches B (updated) and D (new), leaves the table with ids
\* {A,B,C,D}; the later reconciliation against the origin set {A,C,D} flags B
\* and ends with active set {A,C,D}, stored counts 3 and 3, the counts
\* matching and no error.
C25_ReferenceScenario == C25_SeedRun /\ C25_IncrementalRun /\ C25_ReconciliationRun

\* The scenario was played to its end: the second run fetched exactly B and D,
\* and the fourth run, a reconciliation, has flagged B.
C25_Witness_ScenarioPlayed ==
    /\ sc_runs = 3
    /\ run_pc = "done"
    /\ sc_fetches[1] = ScenarioIds \ {sc_D}
    /\ sc_fetches[2] = {sc_B, sc_D}
    /\ run_reconciliation
    /\ \E r \in DOMAIN dest : r.id = sc_B /\ r.del /\ r.delat = {now}
    /\ meta.match = {TRUE}

\* C27: the recovery merge is the incremental upsert: the table after the
\* recovery merge of the recovered records is the table the incremental upsert
\* of the same records gives (new ids inserted, the rows of existing ids
\* overwritten in every mapped property).
C27_RecoveryMergeIsUpsert ==
    [][(run_pc = "phase2" /\ run_pc' = "phase3" /\ missing_contacts' # <<>>)
          => dest' = MergeUpsert(dest, Stage(missing_contacts'))]_vars

\* The rows the soft-delete phase may flag: active, with an id the origin set lacks.
Flaggable(r) == ~r.del /\ r.id \notin current_hubspot_ids

\* C28: soft-delete frame: the soft-delete phase keeps every row that was
\* flagged before or whose id is in the origin set exactly as it was (its
\* deleted_at included), and a row it changes was active with an id absent
\* from the origin set and differs from what it was in is_deleted and
\* deleted_at only; no row is added or removed.
C28_SoftDeleteFrame ==
    [][(run_pc = "phase3" /\ run_pc' = "phase4")
          => /\ BagCardinality(dest') = BagCardinality(dest)
             /\ \A r \in DOMAIN dest :
                   ~Flaggable(r) => (r \in DOMAIN dest' /\ dest'[r] = dest[r])
             /\ \A q \in DOMAIN dest' :
                   q \notin DOMAIN dest
                      => \E r \in DOMAIN dest :
                            /\ Flaggable(r)
                            /\ q = [r EXCEPT !.del = q.del, !.delat = q.delat]]_vars

\* The soft-delete phase has flagged a row, next to a row flagged in an earlier
\* run that keeps its earlier stamp.
C28_Witness_EarlierStampKept ==
    /\ run_pc = "phase4"
    /\ run_reconciliation
    /\ \E r \in DOMAIN dest : r.del /\ r.delat = {now}
    /\ \E r \in DOMAIN dest : r.del /\ r.delat # NULL /\ r.delat # {now}

\* The modification times of a list of records.
ModifiedTimes(recs) == {recs[k].mod : k \in 1..Len(recs)}

\* The greatest of a set of times, NULL when there is none.
GreatestOrNull(S) == IF S = {} THEN NULL ELSE {MaxOf(S)}

\* The sync timestamp the metadata row holds, NULL without a row.
StoredTimestamp(m) == IF m.exists THEN m.ts ELSE NULL

\* C35: watermark value: at the end of a run the stored sync timestamp is the
\* greatest modification time among the records fetched in the incremental or
\* full phase and the records recovered by the reconciliation of that run; when
\* no record was fetched or recovered the stored timestamp is left as it was.
C35_WatermarkIsLatestModified ==
    [][/\ (run_pc = "phase2" /\ run_pc' = "phase3") =>
             latest_modified_dt' =
                 GreatestOrNull(ModifiedTimes(contacts) \cup ModifiedTimes(missing_contacts'))
       /\ (run_pc \in {"phase3", "phase4"} /\ run_pc' \in {"phase4", "final"}) =>
             latest_modified_dt' = latest_modified_dt
       /\ (run_pc = "final" /\ run_pc' = "done") =>
             StoredTimestamp(meta') = IF latest_modified_dt # NULL
                                      THEN latest_modified_dt
                                      ELSE StoredTimestamp(meta)]_vars

\* A run that fetched records and recovered others ended with the greatest
\* modification time of the recovered records as the stored timestamp.
C35_Witness_RecoveredExtends ==
    /\ run_pc = "done"
    /\ missing_contacts # <<>>
    /\ records_synced > Len(missing_contacts)
    /\ meta.exists
    /\ meta.ts = GreatestOrNull(ModifiedTimes(missing_contacts))

\* The run is between its first merge and its metadata write.
BeforeMetadataWrite == run_pc \in {"phase2", "phase3", "phase4", "final"}

\* C36: the watermark is written last: the stored sync timestamp changes only
\* in the metadata write at the end of a run, after the incremental merge and
\* any recovery merge; a run that aborts before that write leaves the stored
\* timestamp as it was, so the next run fetches from the same lower bound.
C36_WatermarkWrittenLast ==
    /\ [](BeforeMetadataWrite =>
            (is_initial_full_sync <=> StoredTimestamp(meta) = NULL))
    /\ [][/\ StoredTimestamp(meta') # StoredTimestamp(meta) =>
                (run_pc = "final" /\ run_pc' = "done")
          /\ (BeforeMetadataWrite /\ run_pc' = "idle") =>
                (run_result' = "aborted" /\ StoredTimestamp(meta') = StoredTimestamp(meta))]_vars

\* A run merged a record modified after the stored timestamp and aborted: the
\* row is in the table and the timestamp is the earlier one.
C36_Witness_AbortedAfterMerge ==
    /\ run_pc = "idle"
    /\ run_result = "aborted"
    /\ meta.exists /\ meta.ts # NULL
    /\ \E r \in DOMAIN dest : \A t \in meta.ts : r.mod > t

\* The metadata row holds the totals of a full validation that differ.
MismatchPersisted ==
    /\ meta.exists
    /\ meta.match = {FALSE}
    /\ meta.hs_total # NULL /\ meta.sf_total # NULL
    /\ meta.hs_total # meta.sf_total

\* C38: a detected mismatch is persisted before the failure: when the final
\* validation of a run finds the origin total different from the active
\* destination total, the run ends with the error and the metadata row holds
\* both totals, the match flag false and the sync timestamp of the run; the
\* decision function of the next run sees the mismatch and the next run that
\* is not an initial full sync reconciles.
C38_MismatchPersistedBeforeFailure ==
    /\ [](/\ (run_pc = "done" /\ run_result = "mismatch") =>
                /\ MismatchPersisted
                /\ meta.hs_total = {Cardinality(current_hubspot_ids)}
                /\ meta.sf_total = {ActiveCount(dest)}
                /\ latest_modified_dt # NULL => meta.ts = latest_modified_dt
          /\ (run_pc = "idle" /\ run_result = "mismatch") =>
                (MismatchPersisted /\ should_run_reconciliation(meta)))
    /\ [][/\ (run_pc = "final" /\ run_pc' = "done"
                /\ (is_initial_full_sync \/ run_reconciliation)
                /\ Cardinality(current_hubspot_ids) # ActiveCount(dest)) =>
                    run_result' = "mismatch"
          /\ (run_pc = "phase2" /\ run_pc' = "phase3" /\ MismatchPersisted) =>
                    run_reconciliation' = ~is_initial_full_sync]_vars

\* A run that fetched records ended with the mismatch error; the row holds the
\* differing totals and the timestamp of the run.
C38_Witness_MismatchStored ==
    /\ run_pc = "done"
    /\ run_result = "mismatch"
    /\ latest_modified_dt # NULL
    /\ meta.ts = latest_modified_dt
    /\ meta.match = {FALSE}

\* A reconciliation run is past its soft-delete phase.
AfterSoftDelete == run_reconciliation /\ run_pc \in {"phase4", "final", "done"}

\* The batch read returned a record for every missing id.
AllMissingRecovered == IdsOf(missing_contacts) = missing_ids

\* C39: after the soft-delete phase of a reconciliation run the active
\* destination ids are a subset of the enumerated origin ids, and the counts at
\* the end of the run match exactly when every missing id was recovered.
C39_CountsMatchIffAllRecovered ==
    /\ AfterSoftDelete => ActiveIds(dest) \subseteq current_hubspot_ids
    /\ (run_reconciliation /\ run_pc = "done") =>
            (run_result = "ok" <=> AllMissingRecovered)

\* The parts of C39 that do not depend on what the recovery merge writes: the
\* subset after the soft delete, and the mismatch at the end of a reconciliation
\* run whose batch read left a missing id out.
C39_SkippedChunkEndsInMismatch ==
    /\ AfterSoftDelete => ActiveIds(dest) \subseteq current_hubspot_ids
    /\ (run_reconciliation /\ run_pc = "done" /\ ~AllMissingRecovered) =>
            run_result = "mismatch"

\* C19: decision function: full reconciliation is chosen exactly when there is
\* no metadata row, or a stored total is unknown, or the stored totals differ,
\* or the run counter is at least RECONCILIATION_FREQUENCY, or skip-on-match
\* is disabled.
C19_DecisionExact ==
    dec_pc = "update"
        => (dec_run <=> \/ ~dec_meta.exists
                        \/ dec_meta.hs_total = NULL
                        \/ dec_meta.sf_total = NULL
                        \/ dec_meta.hs_total # dec_meta.sf_total
                        \/ dec_meta.run_count >= RECONCILIATION_FREQUENCY
                        \/ ~SKIP_RECONCILIATION_IF_COUNTS_MATCH)

\* The decision was true for a row with equal known totals and a counter
\* below the frequency, because skip-on-match is disabled.
C19_Witness_SkipDisabled ==
    /\ dec_pc = "update"
    /\ dec_run
    /\ dec_meta.exists
    /\ dec_meta.hs_total # NULL
    /\ dec_meta.hs_total = dec_meta.sf_total
    /\ dec_meta.run_count < RECONCILIATION_FREQUENCY
    /\ ~SKIP_RECONCILIATION_IF_COUNTS_MATCH

(***************************************************************************)
(* Claims about the statements on the table (checked under SpecTable)      *)
(***************************************************************************)
TableEnded == tbl_pc \in {"done", "aborted", "failed"}

\* C13: no row is ever physically removed: when the statements of a run have
\* ended, by the run's end or by an abort between two statements, every id the
\* table held before the run is still in the table.
C13_NoRowRemoved == TableEnded => RowIds(tbl_first) \subseteq RowIds(tbl)

BatchIds == {tbl_stage[k].id : k \in 1..Len(tbl_stage)}

\* C14: upsert idempotence: merging a batch a second time leaves the table
\* exactly as the first merge left it (the same rows, as many of each); and the
\* second merge is executed, not rejected, when no id occurs twice in the batch.
C14_UpsertIdempotent ==
    tbl_last = "replay"
        => /\ tbl = tbl_prev
           /\ Cardinality(BatchIds) = Len(tbl_stage) => tbl_pc # "failed"

\* A batch that updated a row and inserted another was merged twice.
C14_Witness_MergedTwice ==
    /\ tbl_last = "replay"
    /\ tbl_pc = "reconcile"
    /\ BatchIds \cap RowIds(tbl_first) # {}
    /\ BatchIds \ RowIds(tbl_first) # {}
    /\ tbl_first \notin {tbl}

HasDuplicates(table) == BagCardinality(table) > Cardinality(RowIds(table))

\* C15: dedup restores the key invariant: after the duplicate-cleanup phase
\* COUNT(*) = COUNT(DISTINCT HUBSPOT_ID), whatever the table was before it.
C15_DedupRestoresKey == tbl_pc = "done" => ~HasDuplicates(tbl)

\* A table without duplicates got some by the merge of a batch that holds a new
\* id twice, and phase 4 rebuilt it.
C15_Witness_DuplicatesFromBatch ==
    /\ tbl_pc = "done"
    /\ tbl_last = "reinsert"
    /\ ~HasDuplicates(tbl_first)
    /\ HasDuplicates(tbl_prev)
    /\ \E i \in BatchIds \ RowIds(tbl_first) : CopiesOf(Stage(tbl_stage), i) > 1

RowsOf(table, i) == {r \in DOMAIN table : r.id = i}

\* The row k is what the claim says of the row kept for the rows dup: in each
\* column a value that one of them held, and NULL only if all of them held NULL.
RetainsColumns(k, dup) ==
    /\ k.val \in {r.val : r \in dup}
    /\ k.mod \in {r.mod : r \in dup}
    /\ k.del \in {r.del : r \in dup}
    /\ k.delat \in {r.delat : r \in dup}
    /\ k.delat = NULL <=> \A r \in dup : r.delat = NULL

BackoffDelay(k) == Min(INITIAL_RETRY_DELAY * 2^(k - 1), MAX_RETRY_DELAY)

\* The k-th sleep followed a 429 that carried a Retry-After header.
SleptRetryAfter(k) ==
    history[k].kind = "response" /\ history[k].status = 429 /\ history[k].retry_after # {}

\* C30: exponential backoff schedule: within one request the k-th sleep is
\* min(INITIAL_RETRY_DELAY * 2^(k-1), MAX_RETRY_DELAY) unless it is the
\* Retry-After of a 429; every failure that sleeps, a 429 included, doubles
\* the delay used next; and no delay exceeds MAX_RETRY_DELAY.
C30_BackoffSchedule ==
    /\ Len(sleeps) <= Len(history)
    /\ \A k \in 1..Len(sleeps) :
          /\ ~SleptRetryAfter(k) => sleeps[k] = BackoffDelay(k)
          /\ SleptRetryAfter(k) => sleeps[k] \in history[k].retry_after
    /\ retry_delay = BackoffDelay(Len(sleeps) + 1)
    /\ retry_delay <= MAX_RETRY_DELAY

\* Four consecutive failures, server errors and network errors both among
\* them: the sleeps are 2, 4, 8, 16 with the defaults.
C30_Witness_FourBackoffs ==
    /\ Len(sleeps) = 4
    /\ \A k \in 1..4 : history[k].kind # "response" \/ history[k].status >= 500
    /\ \E k \in 1..4 : history[k].kind # "response"
    /\ \E k \in 1..4 : history[k].kind = "response"
    /\ sleeps = <<INITIAL_RETRY_DELAY, 2 * INITIAL_RETRY_DELAY, 4 * INITIAL_RETRY_DELAY, 8 * INITIAL_RETRY_DELAY>>

(***************************************************************************)
(* Claims about main (checked under SpecMain)                              *)
(***************************************************************************)
Performed(object, step) == \E k \in 1..Len(main_log) : main_log[k] = <<object, step>>

StepsOf(object) == {k \in 1..Len(main_log) : main_log[k][1] = object}

\* C22: count mismatch is fatal: when the sync of an object type has come to
\* its validation with full validation and differing totals, it has raised
\* there and the process has exited with code 1; and the process exits with 0
\* only when the sync of every object type went through all its steps and
\* nothing raised.
C22_MismatchIsFatal ==
    /\ \A o \in DOMAIN validations :
          (Performed(o, "validation") /\ validations[o].full
              /\ validations[o].hubspot_total # validations[o].snowflake_total)
          => /\ main_raised = {<<o, "validation">>}
             /\ main_pc = "exited"
             /\ exit_code = {1}
    /\ (main_log # <<>> /\ exit_code = {0})
          => /\ main_raised = NULL
             /\ \A o \in DOMAIN validations :
                   \A k \in 1..Len(SyncSteps) : Performed(o, SyncSteps[k])

\* The contacts sync validated equal totals, the companies sync fully
\* validated differing totals, and the process exited with 1.
C22_Witness_CompaniesMismatch ==
    /\ main_pc = "exited"
    /\ exit_code = {1}
    /\ main_raised = {<<"companies", "validation">>}
    /\ validations["contacts"].full
    /\ validations["companies"].full
    /\ validations["companies"].hubspot_total # validations["companies"].snowflake_total

\* C26: strictly sequential object types: every step for contacts comes before
\* every step for companies, a step for companies is performed only after all
\* the steps for contacts, in their order; and when the contacts sync raised no
\* step for companies is performed and the process has exited with code 1.
C26_ContactsBeforeCompanies ==
    /\ \A j \in StepsOf("contacts") : \A k \in StepsOf("companies") : j < k
    /\ StepsOf("companies") # {}
          => /\ Len(main_log) >= Len(SyncSteps)
             /\ \A k \in 1..Len(SyncSteps) : main_log[k] = <<"contacts", SyncSteps[k]>>
    /\ (\E s \in 1..Len(SyncSteps) : main_raised = {<<"contacts", SyncSteps[s]>>})
          => /\ StepsOf("companies") = {}
             /\ main_pc = "exited"
             /\ exit_code = {1}

\* The contacts sync raised at its validation, after all its steps.
C26_Witness_ContactsRaised ==
    /\ main_raised = {<<"contacts", "validation">>}
    /\ Len(main_log) = Len(SyncSteps)
    /\ main_pc = "exited"
    /\ exit_code = {1}

(***************************************************************************)
(* Claims about fetch_records_by_ids (checked under SpecBatch)             *)
(***************************************************************************)
RECURSIVE Concat(_)
Concat(ss) == IF ss = <<>> THEN <<>> ELSE Head(ss) \o Concat(Tail(ss))

\* The records of the chunks whose call succeeded, in the order of the calls.
SuccessfulResults ==
    Concat([k \in 1..Len(br_requests) |->
               IF (k - 1) * batch_size \in br_failed THEN <<>>
               ELSE BatchResults(br_origin, br_requests[k])])

\* C23: partial-batch tolerance: when fetch_records_by_ids has returned, every
\* chunk of the ids was requested, those after a failed chunk included; the
\* list returned is the records of the chunks that succeeded; and the caller
\* has merged those records.
C23_FailedChunkSkipped ==
    br_pc \in {"merge", "returned"}
        => /\ Concat(br_requests) = record_ids
           /\ \A k \in 1..Len(br_requests) : Len(br_requests[k]) \in 1..batch_size
           /\ br_records = SuccessfulResults
           /\ br_pc = "returned"
                 => RowIds(br_dest) = {br_records[k].id : k \in 1..Len(br_records)}

\* The first chunk failed, the second was requested and its records are in the
\* table.
C23_Witness_SecondChunkMerged ==
    /\ br_pc = "returned"
    /\ br_failed = {0}
    /\ Len(br_requests) = 2
    /\ br_records # <<>>
    /\ RowIds(br_dest) # {}

\* The flagged and the active copies of id i in a bag of rows.
FlaggedCopies(b, i) == SumCopies(b, {r \in DOMAIN b : r.id = i /\ r.del})

ActiveCopies(b, i) == SumCopies(b, {r \in DOMAIN b : r.id = i /\ ~r.del})

\* Every id with a flagged row before has one after, and no more active rows
\* than before.
StaysFlagged(before, after) ==
    \A i \in TableIds :
        FlaggedCopies(before, i) > 0 =>
            /\ FlaggedCopies(after, i) > 0
            /\ ActiveCopies(after, i) <= ActiveCopies(before, i)

\* C37: is_deleted is never cleared: a flagged row stays flagged through the
\* incremental upsert, the recovery merge and the duplicate cleanup, also when
\* its id is in the fetched batch or among the recovered records.  The rebuild
\* of the cleanup is compared across its TRUNCATE: CONTACTS_DEDUP with the table
\* before it, the table after the INSERT with the table before the TRUNCATE.
C37_FlagNeverCleared ==
    [][IF tbl_pc = "dedup" /\ tbl_pc' = "reinsert"
       THEN StaysFlagged(tbl, tbl_dedup')
                /\ \A i \in TableIds : FlaggedCopies(tbl, i) > 0 => ActiveCopies(tbl_dedup', i) = 0
       ELSE IF tbl_pc = "reinsert" /\ tbl_pc' = "done"
       THEN StaysFlagged(tbl_prev, tbl')
                /\ \A i \in TableIds : FlaggedCopies(tbl_prev, i) > 0 => ActiveCopies(tbl', i) = 0
       ELSE StaysFlagged(tbl, tbl')
                /\ \A i \in TableIds : FlaggedCopies(tbl', i) >= FlaggedCopies(tbl, i)]_vars

\* A flagged id was in the fetched batch: its row took the fetched values and
\* is still flagged after the upsert and the recovery merge.
C37_Witness_RefetchedStillFlagged ==
    /\ tbl_pc = "flag"
    /\ \E i \in TableIds :
          /\ FlaggedCopies(tbl_first, i) = 1 /\ ActiveCopies(tbl_first, i) = 0
          /\ \E k \in 1..Len(tbl_stage) : tbl_stage[k].id = i
          /\ FlaggedCopies(tbl, i) = 1 /\ ActiveCopies(tbl, i) = 0
          /\ \E r \in RowsOf(tbl, i) : \A q \in RowsOf(tbl_first, i) : r.val # q.val

\* C29: duplicate cleanup keeps the most recently synced record of each id:
\* the row kept for an id is one of the rows the table held for that id (the
\* one with the greatest SYNCED_AT), with that row's own column values.
C29_KeptRowIsOneOfTheRows ==
    tbl_last = "reinsert"
        => \A i \in RowIds(tbl_prev) : RowsOf(tbl, i) \subseteq RowsOf(tbl_prev, i)

====
